---- MODULE Spec2Model ----
(***************************************************************************)
(* Model of wbrk/mips_debug: the MIPS32 stack unwinder backtrace_mips32    *)
(* and the symbol formatter backtrace_symbols, the reporter                *)
(* print_stack_trace (src/backtrace.h), the logger (src/log.h), the       *)
(* timer with its _locked methods (src/timer.c) and the stack of starting  *)
(* points of src/measure.c.  Each component has a                          *)
(* specification of its own; the reporter runs the unwinder and the        *)
(* formatter as they are.                                                  *)
(*                                                                         *)
(* Machine words and addresses are 32-bit values, written as TLA+ integers *)
(* in two's complement (a word with the top bit set is a negative integer),*)
(* so the upper and lower half of a word are (w \div 65536) % 65536 and    *)
(* w % 65536.  Memory is one flat array of words: code and stack live in   *)
(* the same address space and the unwinder reads both with the same load.  *)
(* A load from an address that is not a mapped, aligned word is a fault    *)
(* (SIGSEGV / address error): the call ends in pc = "fault".               *)
(***************************************************************************)
EXTENDS Integers, Sequences, FiniteSets, TLC

VARIABLES
    mem,         \* capture: mapped memory, byte address -> word
    size,        \* capture: argument `size`
    bufNull,     \* capture: TRUE when argument `buffer` is NULL
    buffer,      \* capture: the caller's array, index -> word
    stores,      \* capture: history of the stores to buffer, in order,
                 \*          each [idx |-> index, val |-> word stored]
    exit,        \* capture: which return statement ended the call
    ra,          \* capture: local `ra`
    sp,          \* capture: local `sp`
    addr,        \* capture: local `addr`
    stack_size,  \* capture: local `stack_size`
    ra_offset,   \* capture: local `ra_offset`
    depth,       \* capture: local `depth`
    ret,         \* capture: the value returned
    pc,          \* capture: position in backtrace_mips32
    chain,       \* capture: the return addresses of the call chain the
                 \*          memory was built from (<<>> for arbitrary memory)
    array,       \* symbols: argument `array`, a sequence of addresses
    symtab,      \* symbols: what dladdr answers for each address
    status,      \* symbols: local `status`, filled by the sizing pass
    info,        \* symbols: local `info`, filled by the sizing pass
    cnt,         \* symbols: local `cnt`
    total,       \* symbols: local `total`
    result,      \* symbols: local `result`: null, or the pointer table
    text,        \* symbols: the bytes of the block behind the pointer table
    last,        \* symbols: local `last`, an offset from `result`
    overrun,     \* symbols: TRUE once a byte was written outside the block
    spc,         \* symbols: position in backtrace_symbols
    log_level,   \* report: argument `log_level`
    nptrs,       \* report: local `nptrs`
    fi,          \* report: local `i`, the frame index of the loop
    calls,       \* report: the LOG calls made so far, in order, each
                 \*         [level |-> severity, text |-> formatted message]
    freed,       \* report: TRUE once the block of `strings` was freed
    rpc,         \* report: position in print_stack_trace
    other,       \* threads: the registers, arguments and locals of the
                 \*          thread that is not running, as a record
    cur,         \* threads: the thread that is running, 1 or 2
    alone,       \* threads: what the call returned when it ran alone
    mixed,       \* threads: TRUE once a thread was switched out in mid-call
    phase,       \* threads: "alone" during the first call, then "both"
    Config,      \* logger: the static struct Config
    cfg_mtx,     \* logger: the thread holding cfg_mtx, 0 when it is free
    lpc,         \* logger: thread -> position in its logger call
    lop,         \* logger: thread -> the call it is in, with its arguments
    lret,        \* logger: thread -> what its last getter call gave
    ncalls,      \* logger: number of calls started
    out,         \* logger: the pieces written to the stream, in order
    sys,         \* logger: the messages given to syslog, in order
    opened,      \* logger: the ident of the open syslog connection, if any
    stable,      \* logger: Config as the last completed setter call left it
    timer_status,   \* timer: field `status`
    timer_start,    \* timer: field `start`, a timespec
    timer_deadline, \* timer: field `deadline`, a timespec
    timer_lock,     \* timer: what became of field `lock`
    now,            \* timer: the reading of CLOCK_MONOTONIC, a timespec
    ticks,          \* timer: number of clock advances so far
    tret,           \* timer: function -> what it returned at this clock
                    \*        reading and timer state, if it was called
    tlast,          \* timer: the last call that may change the timer, with
                    \*        the clock reading and the timer before it
    tlog,           \* timer: the LOG macro the last call used, if any
    timer_owner,    \* locked timer: the thread holding timer->lock, 0 when
                    \*        it is free
    kpc,            \* locked timer: thread -> position in its _locked call
    kcall,          \* locked timer: thread -> its call: function, argument,
                    \*        the timer it found, the clock reading it took,
                    \*        what it returned
    kcalls,         \* locked timer: number of calls started
    kdone,          \* locked timer: the timer as the completed calls, one
                    \*        after the other, leave it
    ksets,          \* locked timer: the timer_set calls so far, each with
                    \*        its clock reading and its msec
    start,          \* measure: the static array `start`, index -> timespec
    start_ptr,      \* measure: the static `start_ptr`
    mcalls,         \* measure: number of calls made
    mlast,          \* measure: the last call, with what it found, read,
                    \*        wrote and reported
    pending         \* measure: the clock readings of the measure_start
                    \*        calls not yet answered by a measure_get or
                    \*        measure_print, oldest first; the one answered
                    \*        last; whether one of them found the stack full

capVars == <<mem, size, bufNull, buffer, stores, exit, ra, sp, addr, stack_size,
             ra_offset, depth, ret, pc, chain>>

symVars == <<array, symtab, status, info, cnt, total, result, text, last,
             overrun, spc>>

repVars == <<log_level, nptrs, fi, calls, freed, rpc>>

thrVars == <<other, cur, alone, mixed, phase>>

logVars == <<Config, cfg_mtx, lpc, lop, lret, ncalls, out, sys, opened,
             stable>>

tmrVars == <<timer_status, timer_start, timer_deadline, timer_lock, now,
             ticks, tret, tlast, tlog>>

lckVars == <<timer_owner, kpc, kcall, kcalls, kdone, ksets>>

msrVars == <<start, start_ptr, mcalls, mlast, pending>>

vars == <<capVars, symVars, repVars, thrVars, logVars, tmrVars, lckVars,
          msrVars>>

\* the state of the modules other than backtrace.h
farVars == <<logVars, tmrVars, lckVars, msrVars>>

\* the state of backtrace.h
backVars == <<capVars, symVars, repVars, thrVars>>

\* everything backtrace_mips32 leaves alone
capRest == <<symVars, repVars, thrVars, farVars>>

\* everything backtrace_symbols leaves alone
symRest == <<capVars, repVars, thrVars, farVars>>

\* everything print_stack_trace leaves alone, its two callees apart
repRest == <<thrVars, farVars>>

\* everything the logger leaves alone
logRest == <<backVars, tmrVars, lckVars, msrVars>>

\* everything the timer leaves alone
tmrRest == <<backVars, logVars, lckVars, msrVars>>

\* everything the _locked methods leave alone, the timer and the clock apart
lckRest == <<backVars, logVars, msrVars>>

\* everything measure.c leaves alone
msrRest == <<backVars, logVars, tmrVars, lckVars>>

\* a null char **, and a table of n pointers not yet set
NullResult == [null |-> TRUE, tab |-> <<>>]

\* the part of the state backtrace_symbols works on, when it is not running
SymIdle ==
    /\ array = <<>>
    /\ symtab = <<>>
    /\ status = <<>>
    /\ info = <<>>
    /\ cnt = 0
    /\ total = 0
    /\ result = NullResult
    /\ text = <<>>
    /\ last = 0
    /\ overrun = FALSE
    /\ spc = "idle"

\* the part of the state print_stack_trace works on, when it is not running
RepIdle ==
    /\ log_level = 0
    /\ nptrs = 0
    /\ fi = 0
    /\ calls = <<>>
    /\ freed = FALSE
    /\ rpc = "idle"

\* one call at a time: no second thread
ThrIdle ==
    /\ other = <<>>
    /\ cur = 1
    /\ alone = <<>>
    /\ mixed = FALSE
    /\ phase = "idle"

\* log.h lines 25-31
LOG_DISABLED == 0
LOG_LEVEL_DEBUG == 1
LOG_LEVEL_INFO == 2
LOG_LEVEL_WARN == 4
LOG_LEVEL_ERROR == 8

\* log.h lines 33-37
LOG_SINK_UNSPECIFIED == 0
LOG_SINK_FILE == 1
LOG_SINK_SYSLOG == 2

\* a null FILE *, and a null result of a getter not asked for
NullFile == "NULL"

\* the threads that call the logger
LogThreads == {1, 2}

\* part_000 lines 12-17, 23: the logger as the program starts
LogIdle ==
    /\ Config = [ident |-> "?", level_mask |-> LOG_DISABLED, file |-> NullFile,
                 sink |-> LOG_SINK_UNSPECIFIED]
    /\ cfg_mtx = 0
    /\ lpc = [t \in LogThreads |-> "idle"]
    /\ lop = [t \in LogThreads |-> [fn |-> "none"]]
    /\ lret = [t \in LogThreads |-> [fn |-> "none"]]
    /\ ncalls = 0
    /\ out = <<>>
    /\ sys = <<>>
    /\ opened = NullFile
    /\ stable = Config

\* a timespec, and the four query functions of the timer
Timespec(s, n) == [tv_sec |-> s, tv_nsec |-> n]

Queries ==
    {"timer_remaining", "timer_elapsed", "timer_expired", "timer_valid"}

\* in place of a return value: the function was not called
NotCalled == -2

NoAnswer == [f \in Queries |-> NotCalled]

\* no call yet that may change the timer
NoCall ==
    [fn |-> "none", msec |-> 0, at |-> Timespec(0, 0), status |-> 0,
     start |-> Timespec(0, 0), deadline |-> Timespec(0, 0), lock |-> "none",
     everSet |-> FALSE, set |-> Timespec(0, 0)]

\* a program that has no timer
TmrIdle ==
    /\ timer_status = 0
    /\ timer_start = Timespec(0, 0)
    /\ timer_deadline = Timespec(0, 0)
    /\ timer_lock = "none"
    /\ now = Timespec(0, 0)
    /\ ticks = 0
    /\ tret = NoAnswer
    /\ tlast = NoCall
    /\ tlog = "none"

\* the timer's state in one value
TimerOf(st, s, d) == [status |-> st, start |-> s, deadline |-> d]

\* a thread that has made no _locked call
NoLockedCall ==
    [fn |-> "none", msec |-> 0, before |-> TimerOf(0, Timespec(0, 0),
                                                     Timespec(0, 0)),
     at |-> Timespec(0, 0), res |-> NotCalled, fin |-> FALSE,
     rep |-> TimerOf(0, Timespec(0, 0), Timespec(0, 0)),
     seen |-> TimerOf(0, Timespec(0, 0), Timespec(0, 0)),
     after |-> TimerOf(0, Timespec(0, 0), Timespec(0, 0)), log |-> "none"]

\* no thread in a _locked method
LckIdle ==
    /\ timer_owner = 0
    /\ kpc = [t \in LogThreads |-> "idle"]
    /\ kcall = [t \in LogThreads |-> NoLockedCall]
    /\ kcalls = 0
    /\ kdone = NoLockedCall.rep
    /\ ksets = {}

\* measure.c line 8
ARRAY_SIZE == 16

\* no measure_* call yet
NoMeasure ==
    [fn |-> "none", ptr |-> 0, slots |-> <<>>, at |-> Timespec(0, 0),
     read |-> -1, wrote |-> -1, diff |-> Timespec(0, 0), to |-> "none",
     want |-> Timespec(0, 0), paired |-> FALSE, lost |-> FALSE]

\* measure.c lines 10-11 at program start
MsrIdle ==
    /\ start = [k \in 0..(ARRAY_SIZE - 1) |-> Timespec(0, 0)]
    /\ start_ptr = 0
    /\ mcalls = 0
    /\ mlast = NoMeasure
    /\ pending = [stack |-> <<>>, top |-> Timespec(0, 0), any |-> FALSE,
                  lost |-> FALSE]

\* the modules other than backtrace.h, not running
FarIdle == LogIdle /\ TmrIdle /\ LckIdle /\ MsrIdle

\* the components other than the unwinder and the formatter, not running
OthersIdle == RepIdle /\ ThrIdle /\ FarIdle

-----------------------------------------------------------------------------
\* Bounds of the model.

\* mapped words of the arbitrary-memory specification
MemWords == 4
\* largest `size` argument tried
MaxSize == 3
\* longest call chain built
MaxDepth == 2
\* most addresses given to backtrace_symbols
MaxAddrs == 2

-----------------------------------------------------------------------------
\* Words of src/backtrace.h.

\* sizeof(unsigned long) on MIPS32: the step of ++addr and --addr
WordBytes == 4
\* 0x27bd: upper half of `addiu sp, sp, imm`
ADDIU_SP == 10173
\* 0xafbf: upper half of `sw ra, imm(sp)`
SW_RA == 44991
\* 0x3c1c: upper half of `lui gp, imm`
LUI_GP == 15388
\* 0x03e00008: `jr ra`
JR_RA == 65011720

Half == 65536

\* the 32-bit word with upper half hi and lower half lo, in two's complement
Word(hi, lo) ==
    IF hi < Half \div 2 THEN hi * Half + lo ELSE (hi - Half) * Half + lo

\* *addr & 0xffff0000, given as the upper half
HiHalf(w) == (w \div Half) % Half

\* *addr & 0xffff
LoHalf(w) == w % Half

\* (short) x
Short(x) == IF x >= Half \div 2 THEN x - Half ELSE x

ABS(s) == IF s < 0 THEN -s ELSE s

NOP == 0

\* content of a buffer slot the call has not stored to
Poison == -1

NoRet == -1

-----------------------------------------------------------------------------
\* backtrace_mips32

Mapped(a) == a \in DOMAIN mem

\* first instruction of backtrace_mips32: the lowest mapped word
BtEntry == WordBytes

\* the guard without its test of the buffer
EarlyReturn_NoNullTest(sz, isNull) == sz <= 0

\* line 121: the guard of the early return
EarlyReturn(sz, isNull) == sz <= 0 \/ isNull

\* the loop condition off by one
LoopCond_OffByOne(d, sz, r) == d <= sz /\ r # 0

\* line 150: the condition of the unwinding loop
LoopCond(d, sz, r) == d < sz /\ r # 0

\* line 156: the condition of the backward scan
ScanCond(off, ssz) == off = 0 \/ ssz = 0

\* the sentinel return without the frame under scan
SentinelReturn_NoCount(d) == d

\* line 167: the value returned when the scan meets the sentinel
SentinelReturn(d) == d + 1

\* line 139 and 159: the frame size taken from an addiu sp word
FrameSize(w) == ABS(Short(LoHalf(w)))

\* line 163: the offset taken from a sw ra word
SavedOffset(w) == Short(LoHalf(w))

Fault ==
    /\ pc' = "fault"
    /\ UNCHANGED <<mem, size, bufNull, buffer, stores, exit, ra, sp, addr,
                   stack_size, ra_offset, depth, ret, chain>>

\* lines 120-137: entry, early return, start of the forward scan
Enter ==
    /\ pc = "entry"
    /\ IF EarlyReturn(size, bufNull)
         THEN /\ ret' = 0
              /\ exit' = "guard"
              /\ pc' = "done"
              /\ UNCHANGED <<addr, stack_size>>
         ELSE /\ addr' = BtEntry
              /\ stack_size' = 0
              /\ pc' = "fwd"
              /\ UNCHANGED <<ret, exit>>
    /\ UNCHANGED <<mem, size, bufNull, buffer, stores, ra, sp, ra_offset,
                   depth, chain>>
    /\ UNCHANGED capRest

\* lines 137-143: one iteration of the forward scan
FwdScan ==
    /\ pc = "fwd"
    /\ IF ~Mapped(addr)
         THEN Fault
         ELSE /\ IF HiHalf(mem[addr]) = ADDIU_SP
                   THEN /\ stack_size' = FrameSize(mem[addr])
                        /\ addr' = addr + WordBytes
                        /\ pc' = IF stack_size' = 0 THEN "fwd" ELSE "adj"
                   ELSE IF mem[addr] = JR_RA
                   THEN /\ pc' = "adj"
                        /\ UNCHANGED <<stack_size, addr>>
                   ELSE /\ addr' = addr + WordBytes
                        /\ pc' = "fwd"
                        /\ UNCHANGED stack_size
              /\ UNCHANGED <<mem, size, bufNull, buffer, stores, exit, ra, sp,
                             ra_offset, depth, ret, chain>>
    /\ UNCHANGED capRest

\* lines 145-150: sp skips the frame of backtrace_mips32, depth = 0
AdjustSp ==
    /\ pc = "adj"
    /\ sp' = sp + stack_size
    /\ depth' = 0
    /\ pc' = "loop"
    /\ UNCHANGED <<mem, size, bufNull, buffer, stores, exit, ra, addr, stack_size,
                   ra_offset, ret, chain>>
    /\ UNCHANGED capRest

\* lines 150-156 and 178: loop test, store of ra, start of the backward scan
LoopHead ==
    /\ pc = "loop"
    /\ IF LoopCond(depth, size, ra)
         THEN /\ buffer' = [buffer EXCEPT ![depth] = ra]
              /\ stores' = Append(stores, [idx |-> depth, val |-> ra])
              /\ ra_offset' = 0
              /\ stack_size' = 0
              /\ addr' = ra
              /\ pc' = "bwd"
              /\ UNCHANGED <<ret, exit>>
         ELSE /\ ret' = depth
              /\ exit' = "loop"
              /\ pc' = "done"
              /\ UNCHANGED <<buffer, stores, ra_offset, stack_size, addr>>
    /\ UNCHANGED <<mem, size, bufNull, ra, sp, depth, chain>>
    /\ UNCHANGED capRest

\* lines 156-172: one iteration of the backward scan
BwdScan ==
    /\ pc = "bwd"
    /\ IF ~Mapped(addr)
         THEN Fault
         ELSE /\ IF HiHalf(mem[addr]) = LUI_GP
                   THEN /\ ret' = SentinelReturn(depth)
                        /\ exit' = "sentinel"
                        /\ pc' = "done"
                        /\ UNCHANGED <<stack_size, ra_offset, addr>>
                   ELSE /\ stack_size' = IF HiHalf(mem[addr]) = ADDIU_SP
                                           THEN FrameSize(mem[addr])
                                           ELSE stack_size
                        /\ ra_offset' = IF HiHalf(mem[addr]) = SW_RA
                                          THEN SavedOffset(mem[addr])
                                          ELSE ra_offset
                        /\ addr' = addr - WordBytes
                        /\ pc' = IF ScanCond(ra_offset', stack_size')
                                   THEN "bwd" ELSE "load"
                        /\ UNCHANGED <<ret, exit>>
              /\ UNCHANGED <<mem, size, bufNull, buffer, stores, ra, sp,
                             depth, chain>>
    /\ UNCHANGED capRest

\* lines 174-175 and the ++depth of line 150
LoadRa ==
    /\ pc = "load"
    /\ IF ~Mapped(sp + ra_offset)
         THEN Fault
         ELSE /\ ra' = mem[sp + ra_offset]
              /\ sp' = sp + stack_size
              /\ depth' = depth + 1
              /\ pc' = "loop"
              /\ UNCHANGED <<mem, size, bufNull, buffer, stores, exit, addr,
                             stack_size, ra_offset, ret, chain>>
    /\ UNCHANGED capRest

CaptureNext == Enter \/ FwdScan \/ AdjustSp \/ LoopHead \/ BwdScan \/ LoadRa

-----------------------------------------------------------------------------
\* Arbitrary memory: every word of a small mapped region is any of the words
\* the unwinder tells apart, or a pointer.

AddrsOf(n) == {WordBytes * i : i \in 1..n}

WordChoices ==
    { Word(ADDIU_SP, Half - 8), Word(SW_RA, 4), Word(SW_RA, 0),
      Word(LUI_GP, 0), JR_RA, NOP, 2 * WordBytes }

CaptureLocalsInit ==
    /\ stores = <<>>
    /\ exit = "none"
    /\ addr = 0
    /\ stack_size = 0
    /\ ra_offset = 0
    /\ depth = 0
    /\ ret = NoRet
    /\ pc = "entry"

CaptureInit ==
    /\ mem \in [AddrsOf(MemWords) -> WordChoices]
    /\ size \in -1..MaxSize
    /\ bufNull \in BOOLEAN
    /\ ra \in {0, 2 * WordBytes, MemWords * WordBytes}
    /\ sp \in {WordBytes, 2 * WordBytes}
    /\ chain = <<>>
    /\ buffer = [i \in 0..MaxSize |-> Poison]
    /\ CaptureLocalsInit
    /\ SymIdle
    /\ OthersIdle

SpecCapture == CaptureInit /\ [][CaptureNext]_vars

-----------------------------------------------------------------------------
\* A well-formed call chain F_n -> ... -> F_1 -> backtrace_mips32.  The code
\* of every function is its prologue (lui gp first when the code is PIC, then
\* addiu sp,sp,-fs and sw ra,ro(sp)) followed by the word its callee returns
\* to; the stack holds one frame per function, the return address into the
\* caller at byte ro of the frame, and the outermost frame saves a null ra.

FrameShapes ==
    { [fs |-> 8, ro |-> 4], [fs |-> 8, ro |-> 0],
      [fs |-> 16, ro |-> 12], [fs |-> 16, ro |-> 0] }

BtFrames == {0, 8}

Sentinel(pic) == IF pic THEN <<Word(LUI_GP, 0)>> ELSE <<>>

BtCode(pic, btFrame) ==
    Sentinel(pic)
    \o (IF btFrame > 0 THEN <<Word(ADDIU_SP, Half - btFrame)>> ELSE <<>>)
    \o <<JR_RA>>

FuncCode(pic, f) ==
    Sentinel(pic) \o <<Word(ADDIU_SP, Half - f.fs), Word(SW_RA, f.ro), NOP>>

\* the address F_k's callee returns to: the last word of F_k's code
RetAddr(pic, btFrame, frames, k) ==
    WordBytes * (Len(BtCode(pic, btFrame)) + k * Len(FuncCode(pic, frames[1])))

FrameWords(f, saved) ==
    [i \in 1..(f.fs \div WordBytes) |->
        IF (i - 1) * WordBytes = f.ro THEN saved ELSE NOP]

RECURSIVE ChainCode(_, _, _)
ChainCode(pic, frames, k) ==
    IF k > Len(frames) THEN <<>>
    ELSE FuncCode(pic, frames[k]) \o ChainCode(pic, frames, k + 1)

RECURSIVE ChainStack(_, _, _, _)
ChainStack(pic, btFrame, frames, k) ==
    IF k > Len(frames) THEN <<>>
    ELSE FrameWords(frames[k],
                    IF k < Len(frames)
                      THEN RetAddr(pic, btFrame, frames, k + 1) ELSE 0)
         \o ChainStack(pic, btFrame, frames, k + 1)

ChainCodeWords(pic, btFrame, frames) ==
    BtCode(pic, btFrame) \o ChainCode(pic, frames, 1)

ChainWords(pic, btFrame, frames) ==
    ChainCodeWords(pic, btFrame, frames)
    \o [i \in 1..(btFrame \div WordBytes) |-> NOP]
    \o ChainStack(pic, btFrame, frames, 1)

ChainInit ==
    \E pic \in BOOLEAN, btFrame \in BtFrames, n \in 1..MaxDepth :
      \E frames \in [1..n -> FrameShapes] :
        LET words == ChainWords(pic, btFrame, frames) IN
        /\ mem = [a \in AddrsOf(Len(words)) |-> words[a \div WordBytes]]
        /\ chain = [k \in 1..n |-> RetAddr(pic, btFrame, frames, k)]
        /\ ra = RetAddr(pic, btFrame, frames, 1)
        /\ sp = WordBytes * (Len(ChainCodeWords(pic, btFrame, frames)) + 1)
        /\ size \in 0..(n + 1)
        /\ bufNull = FALSE
        /\ buffer = [i \in 0..(MaxDepth + 1) |-> Poison]
        /\ CaptureLocalsInit
        /\ SymIdle
        /\ OthersIdle

SpecChain == ChainInit /\ [][CaptureNext]_vars

-----------------------------------------------------------------------------
\* backtrace_symbols
\*
\* A C string is [null |-> FALSE, s |-> its characters]; texts are sequences
\* of one-character strings.  Addresses given to backtrace_symbols are
\* 0 .. 0x7fffffff, which reaches the full eight hex digits of a 32-bit
\* pointer.  printf's %p prints a null pointer as (nil) and any other as 0x
\* and its hex digits (glibc and uClibc); %#lx prints zero as 0, with no 0x.

\* __ELF_NATIVE_CLASS == 32
WORD_WIDTH == 8

NullStr == [null |-> TRUE, s |-> <<>>]
CStr(s) == [null |-> FALSE, s |-> s]

NUL == "NUL"
Uninit == "?"

HexDigits ==
    <<"0", "1", "2", "3", "4", "5", "6", "7", "8", "9",
      "a", "b", "c", "d", "e", "f">>

RECURSIVE Hex(_)
Hex(v) ==
    IF v < 16 THEN <<HexDigits[v + 1]>>
    ELSE Hex(v \div 16) \o <<HexDigits[(v % 16) + 1]>>

\* printf("%#lx", v)
FmtHashLx(v) == IF v = 0 THEN <<"0">> ELSE <<"0", "x">> \o Hex(v)

\* printf("%p", a)
FmtP(a) == IF a = 0 THEN <<"(", "n", "i", "l", ")">> ELSE <<"0", "x">> \o Hex(a)

\* the test without its check for an empty file name
Resolved_NoEmptyTest(st, inf) == st # 0 /\ ~inf.fname.null

\* lines 192 and 212-213: dladdr succeeded and gave a non-empty file name
Resolved(st, inf) == st # 0 /\ ~inf.fname.null /\ inf.fname.s # <<>>

\* the sizing pass without the byte of the terminator
Reserve_NoTerminator(st, inf) ==
    IF Resolved(st, inf)
      THEN Len(inf.fname.s)
           + (IF ~inf.sname.null
                THEN Len(inf.sname.s) + 3 + WORD_WIDTH + 3 ELSE 1)
           + WORD_WIDTH + 4
      ELSE 4 + WORD_WIDTH

\* lines 197-202: the bytes the sizing pass adds for one address
Reserve(st, inf) ==
    IF Resolved(st, inf)
      THEN Len(inf.fname.s)
           + (IF ~inf.sname.null
                THEN Len(inf.sname.s) + 3 + WORD_WIDTH + 3 ELSE 1)
           + WORD_WIDTH + 5
      ELSE 5 + WORD_WIDTH

\* the comparison of line 217 made strict
OffsetBuf_StrictCompare(a, saddr) ==
    IF a > saddr THEN <<"+">> \o FmtHashLx(a - saddr)
    ELSE <<"-">> \o FmtHashLx(saddr - a)

\* lines 217-222: the text sprintf leaves in buf
OffsetBuf(a, saddr) ==
    IF a >= saddr THEN <<"+">> \o FmtHashLx(a - saddr)
    ELSE <<"-">> \o FmtHashLx(saddr - a)

\* lines 212-232: the text sprintf writes for one address
LineText(a, st, inf) ==
    IF Resolved(st, inf)
      THEN inf.fname.s
           \o (IF ~inf.sname.null THEN <<"(">> ELSE <<>>)
           \o (IF ~inf.sname.null THEN inf.sname.s ELSE <<>>)
           \o (IF ~inf.sname.null THEN OffsetBuf(a, inf.saddr) ELSE <<>>)
           \o (IF ~inf.sname.null THEN <<")", " ">> ELSE <<" ">>)
           \o <<"[">> \o FmtP(a) \o <<"]">>
      ELSE <<"[">> \o FmtP(a) \o <<"]">>

\* line 206: the size of the block asked of malloc
BlockSize(n, tot) == n * WordBytes + tot

\* the write pass without the test of line 207
WritePassRuns_Always(res) == TRUE

\* lines 207, 209: the write pass runs for a non-null result only
WritePassRuns(res) == ~res.null

\* every iteration working on the first element
ArrayAt_First(arr, c) == arr[1]

\* lines 191, 212, 217, 230: the element of `array` iteration c works on
ArrayAt(arr, c) == arr[c + 1]

\* the block's bytes with `chars` stored from offset `off` on
Put(t, off, chars) ==
    [o \in DOMAIN t |->
        IF off <= o /\ o < off + Len(chars) THEN chars[o - off + 1] ELSE t[o]]

\* lines 190-203: one iteration of the sizing pass; after the last, malloc
\* (line 206), which may fail, and the start of the write pass (line 208)
SizeStep ==
    /\ spc = "size"
    /\ cnt < Len(array)
    /\ LET d == symtab[ArrayAt(array, cnt)] IN
         /\ status' = Append(status, d.status)
         /\ info' = Append(info, d)
         /\ total' = total + Reserve(d.status, d)
    /\ cnt' = cnt + 1
    /\ UNCHANGED <<array, symtab, result, text, last, overrun, spc>>
    /\ UNCHANGED symRest

Malloc ==
    /\ spc = "size"
    /\ cnt >= Len(array)
    /\ \E ok \in BOOLEAN :
         /\ result' = IF ok
                        THEN [null |-> FALSE,
                              tab |-> [i \in 1..Len(array) |-> -1]]
                        ELSE NullResult
         /\ text' = IF ok
                      THEN [o \in (Len(array) * WordBytes)
                                  ..(BlockSize(Len(array), total) - 1)
                              |-> Uninit]
                      ELSE <<>>
         /\ IF WritePassRuns(result')
              THEN /\ last' = Len(array) * WordBytes
                   /\ cnt' = 0
                   /\ spc' = "write"
              ELSE /\ spc' = "done"
                   /\ UNCHANGED <<last, cnt>>
    /\ UNCHANGED <<array, symtab, status, info, total, overrun>>
    /\ UNCHANGED symRest

\* lines 209-233: one iteration of the write pass
WriteStep ==
    /\ spc = "write"
    /\ cnt < Len(array)
    /\ LET line == LineText(ArrayAt(array, cnt), status[cnt + 1],
                            info[cnt + 1]) \o <<NUL>>
       IN
         /\ result' = [result EXCEPT !.tab =
                          [i \in DOMAIN result.tab |->
                              IF i = cnt + 1 THEN last ELSE result.tab[i]]]
         /\ text' = Put(text, last, line)
         /\ overrun' = (overrun \/ \E o \in last..(last + Len(line) - 1) :
                                       o \notin DOMAIN text)
         /\ last' = last + Len(line)
    /\ cnt' = cnt + 1
    /\ UNCHANGED <<array, symtab, status, info, total, spc>>
    /\ UNCHANGED symRest

\* lines 234-237: the assert, and the return
Return ==
    /\ spc = "write"
    /\ cnt >= Len(array)
    /\ spc' = IF last <= BlockSize(Len(array), total) THEN "done" ELSE "abort"
    /\ UNCHANGED <<array, symtab, status, info, cnt, total, result, text,
                   last, overrun>>
    /\ UNCHANGED symRest

SymbolsNext == SizeStep \/ Malloc \/ WriteStep \/ Return

\* the part of the state backtrace_mips32 works on, when it is not running
CapIdle ==
    /\ mem = <<>>
    /\ size = 0
    /\ bufNull = TRUE
    /\ buffer = <<>>
    /\ chain = <<>>
    /\ ra = 0
    /\ sp = 0
    /\ stores = <<>>
    /\ exit = "none"
    /\ addr = 0
    /\ stack_size = 0
    /\ ra_offset = 0
    /\ depth = 0
    /\ ret = NoRet
    /\ pc = "idle"

AddrChoices == {0, 4501452, 2147483647}

\* what dladdr may answer: failure; success without a usable file name;
\* a file name alone; a file name and a symbol at, below or above the address
InfoChoices ==
    { [status |-> 0, fname |-> NullStr, sname |-> NullStr, saddr |-> 0],
      [status |-> 1, fname |-> NullStr, sname |-> CStr(<<"f">>),
       saddr |-> 4501392],
      [status |-> 1, fname |-> CStr(<<>>), sname |-> CStr(<<"f">>),
       saddr |-> 4501392],
      [status |-> 1, fname |-> CStr(<<"/", "m">>), sname |-> NullStr,
       saddr |-> 0] }
    \cup
    { [status |-> 1, fname |-> CStr(<<"/", "m">>), sname |-> CStr(<<"f">>),
       saddr |-> b] : b \in {0, 4501392, 4501452, 2147483647} }

SymbolsInit ==
    /\ array \in UNION {[1..n -> AddrChoices] : n \in 0..MaxAddrs}
    /\ symtab \in [AddrChoices -> InfoChoices]
    /\ status = <<>>
    /\ info = <<>>
    /\ cnt = 0
    /\ total = 0
    /\ result = NullResult
    /\ text = <<>>
    /\ last = 0
    /\ overrun = FALSE
    /\ spc = "size"
    /\ CapIdle
    /\ OthersIdle

SpecSymbols == SymbolsInit /\ [][SymbolsNext]_vars

-----------------------------------------------------------------------------
\* Properties of backtrace_mips32.

StoredIdx == {stores[k].idx : k \in 1..Len(stores)}

\* the buffer holds, from slot 0 on, exactly the words stored, in the order
\* they were stored, and every other slot is untouched
BufferIsStores ==
    /\ \A k \in 1..Len(stores) :
         stores[k].idx = k - 1 /\ buffer[k - 1] = stores[k].val
    /\ \A i \in DOMAIN buffer : i >= Len(stores) => buffer[i] = Poison

\* C1: backtrace_mips32 called with size <= 0 or with a null buffer returns 0
\* and stores nothing, whatever the memory holds: it reads no memory (it takes
\* no step of either scan), cannot fault, and ends by the guard's return.
C1_EmptyOnBadArguments ==
    (size <= 0 \/ bufNull) =>
        /\ stores = <<>>
        /\ \A i \in DOMAIN buffer : buffer[i] = Poison
        /\ pc \in {"entry", "done"}
        /\ pc = "done" => ret = 0 /\ exit = "guard"

C1_Witness ==
    pc = "done" /\ bufNull /\ size > 0 /\ ret = 0 /\ ra # 0

\* C2: for size > 0 and any memory, no store ever goes to an index >= size,
\* and a call that returns gives a count r with 0 <= r <= size having stored
\* to the slots 0..r-1 and to no other, the sentinel return included.
C2_CountWithinSize ==
    (size > 0 /\ ~bufNull) =>
        /\ \A i \in StoredIdx : 0 <= i /\ i < size
        /\ pc = "done" =>
              /\ 0 <= ret /\ ret <= size
              /\ StoredIdx = 0..(ret - 1)

\* the sentinel return in the last slot: depth + 1 = size
C2_Witness ==
    pc = "done" /\ exit = "sentinel" /\ size > 1 /\ ret = size

\* C3: no call to backtrace_mips32 faults, whatever the memory holds.
C3_NeverFaults == pc # "fault"

\* C5: a call that stops at the sentinel or at a null return address returns
\* the number of addresses stored (the frame under scan at the sentinel
\* included, the null address not), the buffer holds exactly those addresses
\* in slots 0..count-1, none of them null, and the count is no error value.
C5_EarlyStopKeepsFrames ==
    (pc = "done" /\ (exit = "sentinel" \/ (exit = "loop" /\ ra = 0))) =>
        /\ ret = Len(stores)
        /\ ret >= 0
        /\ BufferIsStores
        /\ \A k \in 1..Len(stores) : stores[k].val # 0
        /\ exit = "sentinel" => ret = depth + 1 /\ buffer[depth] = ra
        /\ exit = "loop" => ret = depth

\* stopped at the sentinel in the second frame, below the size asked for
C5_Witness ==
    pc = "done" /\ exit = "sentinel" /\ depth = 1 /\ ret = 2 /\ size > 2

\* stopped at a null return address loaded from the stack
C5_WitnessNull ==
    pc = "done" /\ exit = "loop" /\ ra = 0 /\ depth = 1 /\ size > 1

\* C4: on a well-formed call chain of depth N, a call with size >= N returns
\* at least N and buffer[0..N-1] holds the chain's return addresses, most
\* recent call first.
C4_ChainCaptured ==
    (pc = "done" /\ chain # <<>> /\ size >= Len(chain)) =>
        /\ ret >= Len(chain)
        /\ \A k \in 1..Len(chain) : buffer[k - 1] = chain[k]

\* every sw ra of the chain's code has a non-zero offset
OffsetsNonZero ==
    \A a \in DOMAIN mem :
        HiHalf(mem[a]) = SW_RA => SavedOffset(mem[a]) # 0

\* the chain is captured, and without a fault, when no function saves ra at
\* offset 0
ChainCapturedNonZero ==
    (chain # <<>> /\ OffsetsNonZero) =>
        /\ pc # "fault"
        /\ (pc = "done" /\ size >= Len(chain)) =>
              /\ ret >= Len(chain)
              /\ \A k \in 1..Len(chain) : buffer[k - 1] = chain[k]

\* the words the backward scan of the current frame has read so far: it
\* starts at ra and is about to read addr
Scanned == {a \in DOMAIN mem : a > addr /\ a <= ra}

\* the lowest word of kind hi the scan has read, the one matched last
LastMatch(hi) ==
    LET m == {a \in Scanned : HiHalf(mem[a]) = hi}
    IN mem[CHOOSE a \in m : \A b \in m : a <= b]

BothMatched ==
    /\ \E a \in Scanned : HiHalf(mem[a]) = ADDIU_SP
    /\ \E a \in Scanned : HiHalf(mem[a]) = SW_RA

\* C25: in a backward scan, once an addiu sp word and a sw ra word have both
\* been read for the current frame, whatever their immediates, no lower word
\* is read; the return address is then loaded from sp plus the signed
\* immediate of the sw ra word and sp advances by the absolute value of the
\* signed immediate of the addiu sp word.
C25_ScanStopsWhenBothMatched ==
    /\ pc = "bwd" => ~BothMatched
    /\ pc = "load" =>
          /\ BothMatched
          /\ ra_offset = Short(LoHalf(LastMatch(SW_RA)))
          /\ stack_size = ABS(Short(LoHalf(LastMatch(ADDIU_SP))))

-----------------------------------------------------------------------------
\* Properties of backtrace_symbols.

\* the C string at offset off of the block
RECURSIVE LineAt(_)
LineAt(off) ==
    IF off \notin DOMAIN text \/ text[off] = NUL THEN <<>>
    ELSE <<text[off]>> \o LineAt(off + 1)

\* the line the caller finds for the i-th address
Line(i) == LineAt(result.tab[i])

Returned == spc = "done" /\ ~result.null

Answer(i) == symtab[array[i]]

HasModule(d) == d.status # 0 /\ ~d.fname.null /\ d.fname.s # <<>>

HasSymbol(d) == HasModule(d) /\ ~d.sname.null

StartsWith(t, pre) == Len(t) >= Len(pre) /\ SubSeq(t, 1, Len(pre)) = pre

EndsWith(t, suf) ==
    Len(t) >= Len(suf) /\ SubSeq(t, Len(t) - Len(suf) + 1, Len(t)) = suf

AddressPart(a) == <<"[">> \o FmtP(a) \o <<"]">>

\* what stands between the symbol name and the closing parenthesis
OffsetPart(i) ==
    SubSeq(Line(i),
           Len(Answer(i).fname.s) + 1 + Len(Answer(i).sname.s) + 1,
           Len(Line(i)) - Len(<<")", " ">> \o AddressPart(array[i])))

DigitValue(c) == CHOOSE v \in 0..15 : HexDigits[v + 1] = c

IsHex(t) ==
    Len(t) > 0 /\ \A k \in 1..Len(t) : \E v \in 0..15 : HexDigits[v + 1] = t[k]

RECURSIVE HexValue(_)
HexValue(t) ==
    IF t = <<>> THEN 0
    ELSE 16 * HexValue(SubSeq(t, 1, Len(t) - 1)) + DigitValue(t[Len(t)])

\* C6: backtrace_symbols with N addresses and a successful allocation returns
\* N lines, each a terminated string inside the block, and line i is the
\* text for address i and for what dladdr answers for address i.
C6_OneLinePerAddress ==
    Returned =>
        /\ Len(result.tab) = Len(array)
        /\ \A i \in 1..Len(array) :
             /\ result.tab[i] \in DOMAIN text
             /\ Line(i) = LineText(array[i], Answer(i).status, Answer(i))

\* two different addresses, the first resolved and the second not
C6_Witness ==
    /\ Returned
    /\ Len(array) = 2
    /\ array[1] # array[2]
    /\ HasSymbol(Answer(1))
    /\ Answer(2).status = 0

\* C7: every line has the form its own address calls for:
\* <module>(<symbol><sign><hex-offset>) [<address>] with module and symbol,
\* <module> [<address>] with a non-empty module path only, and [<address>]
\* when dladdr fails or gives no or an empty module path.
C7_ThreeForms ==
    Returned =>
        \A i \in 1..Len(array) :
            LET d == Answer(i) IN
            IF HasSymbol(d)
              THEN /\ StartsWith(Line(i), d.fname.s \o <<"(">> \o d.sname.s)
                   /\ EndsWith(Line(i), <<")", " ">> \o AddressPart(array[i]))
                   /\ Len(OffsetPart(i)) >= 2
                   /\ OffsetPart(i)[1] \in {"+", "-"}
                   /\ \A k \in 2..Len(OffsetPart(i)) :
                        OffsetPart(i)[k] = "x" \/ IsHex(<<OffsetPart(i)[k]>>)
                   /\ Len(Line(i)) =
                        Len(d.fname.s) + 1 + Len(d.sname.s)
                        + Len(OffsetPart(i)) + 2 + Len(AddressPart(array[i]))
            ELSE IF HasModule(d)
              THEN Line(i) = d.fname.s \o <<" ">> \o AddressPart(array[i])
            ELSE Line(i) = AddressPart(array[i])

\* a module-only line followed by a line with module and symbol
C7_Witness ==
    /\ Returned
    /\ Len(array) = 2
    /\ HasModule(Answer(1)) /\ ~HasSymbol(Answer(1))
    /\ HasSymbol(Answer(2))

\* C8 as claimed: the offset text is +0x and the hex of address - base when
\* address >= base, equality included, and -0x and the hex of base - address
\* when address < base.
C8_OffsetAlwaysPrefixed ==
    Returned =>
        \A i \in 1..Len(array) :
            HasSymbol(Answer(i)) =>
                LET a == array[i]
                    b == Answer(i).saddr
                    t == OffsetPart(i)
                IN /\ Len(t) >= 4
                   /\ SubSeq(t, 1, 3) =
                        (IF a >= b THEN <<"+", "0", "x">> ELSE <<"-", "0", "x">>)
                   /\ IsHex(SubSeq(t, 4, Len(t)))
                   /\ HexValue(SubSeq(t, 4, Len(t))) = ABS(a - b)

\* C8 amended: the sign is + when address >= base and - when address < base;
\* a non-zero difference is written 0x and its hex digits, a zero difference
\* is written 0 with no 0x; the value is the absolute difference.
C8_OffsetSignAndValue ==
    Returned =>
        \A i \in 1..Len(array) :
            HasSymbol(Answer(i)) =>
                LET a == array[i]
                    b == Answer(i).saddr
                    t == OffsetPart(i)
                    digits == IF a = b THEN SubSeq(t, 2, Len(t))
                              ELSE SubSeq(t, 4, Len(t))
                IN /\ Len(t) >= 2
                   /\ t[1] = (IF a >= b THEN "+" ELSE "-")
                   /\ a # b => Len(t) >= 4 /\ SubSeq(t, 2, 3) = <<"0", "x">>
                   /\ a = b => t = <<"+", "0">>
                   /\ IsHex(digits)
                   /\ digits[1] = "0" => a = b
                   /\ HexValue(digits) = ABS(a - b)

\* an address below its symbol's base, and an address at its symbol's base
C8_Witness ==
    /\ Returned
    /\ Len(array) = 2
    /\ HasSymbol(Answer(1)) /\ array[1] < Answer(1).saddr
    /\ HasSymbol(Answer(2)) /\ array[2] = Answer(2).saddr

\* C9: no byte is written outside the block, the write cursor never passes
\* the end of the block, the assert holds, every line with its terminator
\* fits the bytes the sizing pass reserved for its address, and the lines lie
\* one after the other behind the pointer table.
C9_WritesWithinBlock ==
    /\ ~overrun
    /\ spc # "abort"
    /\ spc \in {"write", "done"} /\ ~result.null =>
         /\ last <= BlockSize(Len(array), total)
         /\ \A i \in 1..Len(array) :
              (i <= cnt) =>
                /\ Len(Line(i)) + 1 <= Reserve(status[i], info[i])
                /\ result.tab[i] >= Len(array) * WordBytes
                /\ result.tab[i] + Len(Line(i)) + 1
                     <= (IF i < cnt THEN result.tab[i + 1] ELSE last)

\* two lines that fill the block to its last byte
C9_Witness ==
    /\ Returned
    /\ Len(array) = 2
    /\ HasSymbol(Answer(1))
    /\ last = BlockSize(Len(array), total)

\* C10: once malloc has failed the call is at its return with a null
\* result: no line was written, no block and no pointer table exist, and the
\* arguments and the rest of the state are as they were.
C10_NullOnAllocationFailure ==
    (result.null /\ spc \notin {"size", "idle"}) =>
        /\ spc = "done"
        /\ text = <<>>
        /\ result.tab = <<>>
        /\ last = 0
        /\ ~overrun
        /\ cnt = Len(array)
        /\ CapIdle

C10_Witness ==
    spc = "done" /\ result.null /\ Len(array) = 2 /\ total > 0

-----------------------------------------------------------------------------
\* print_stack_trace
\*
\* The reporter calls the unwinder on its own 64-entry buffer, logs a header,
\* calls the formatter on what was captured and logs one line per frame.
\* The unwinder and the formatter run as the actions above; the reporter's
\* actions are the statements between the two calls and after them.  LOG is
\* a call of log_log with the caller's severity: `calls` records every call
\* with the message printf would build from its format and arguments.

\* line 102: void *buffer[64]
BufferFrames == 64

RECURSIVE Dec(_)
\* printf("%d", n) for n >= 0
Dec(n) ==
    IF n < 10 THEN <<HexDigits[n + 1]>>
    ELSE Dec(n \div 10) \o <<HexDigits[(n % 10) + 1]>>

\* printf("%02d", n) for n >= 0
Fmt02d(n) == IF n < 10 THEN <<"0">> \o Dec(n) ELSE Dec(n)

\* line 104: "Stack trace: %d frames (most recent call first)"
HeaderText(n) ==
    <<"S", "t", "a", "c", "k", " ", "t", "r", "a", "c", "e", ":", " ">>
    \o Dec(n)
    \o <<" ", "f", "r", "a", "m", "e", "s", " ", "(", "m", "o", "s", "t", " ",
         "r", "e", "c", "e", "n", "t", " ", "c", "a", "l", "l", " ",
         "f", "i", "r", "s", "t", ")">>

\* line 110: "\t#%02d %p"
FallbackText(k, a) == <<"\t", "#">> \o Fmt02d(k) \o <<" ">> \o FmtP(a)

\* line 112: "\t#%02d %s"
SymbolText(k, str) == <<"\t", "#">> \o Fmt02d(k) \o <<" ">> \o str

\* the loop leaving one iteration early
MoreLines_SkipLast(k, n) == k < n - 1

\* line 108: the loop test
MoreLines(k, n) == k < n

\* the loop body without its test of `strings`
UseFallback_Never(res) == FALSE

\* line 109: if (!strings)
UseFallback(res) == res.null

LogCall(msg) == [level |-> log_level, text |-> msg]

\* lines 103-104: the unwinder has returned; the header is logged
RepHeader ==
    /\ rpc = "capture"
    /\ pc = "done"
    /\ nptrs' = ret
    /\ calls' = Append(calls, LogCall(HeaderText(ret)))
    /\ rpc' = "symbols"
    /\ UNCHANGED <<log_level, fi, freed>>
    /\ UNCHANGED <<capVars, symVars>>
    /\ UNCHANGED repRest

\* line 106: the call of backtrace_symbols(buffer, nptrs), whose locals
\* start as lines 183-190 leave them
RepSymbols ==
    /\ rpc = "symbols"
    /\ array' = [k \in 1..nptrs |-> buffer[k - 1]]
    /\ status' = <<>>
    /\ info' = <<>>
    /\ cnt' = 0
    /\ total' = 0
    /\ result' = NullResult
    /\ text' = <<>>
    /\ last' = 0
    /\ overrun' = FALSE
    /\ spc' = "size"
    /\ fi' = 0
    /\ rpc' = "lines"
    /\ UNCHANGED <<symtab, log_level, nptrs, calls, freed>>
    /\ UNCHANGED capVars
    /\ UNCHANGED repRest

\* lines 108-114: one iteration of the loop, once the formatter has returned;
\* strings[i] of a null `strings` is a null dereference
RepLine ==
    /\ rpc = "lines"
    /\ spc = "done"
    /\ MoreLines(fi, nptrs)
    /\ IF UseFallback(result)
         THEN /\ calls' = Append(calls, LogCall(FallbackText(fi, buffer[fi])))
              /\ fi' = fi + 1
              /\ rpc' = "lines"
         ELSE IF result.null
         THEN /\ rpc' = "fault"
              /\ UNCHANGED <<calls, fi>>
         ELSE /\ calls' = Append(calls, LogCall(SymbolText(fi, Line(fi + 1))))
              /\ fi' = fi + 1
              /\ rpc' = "lines"
    /\ UNCHANGED <<log_level, nptrs, freed>>
    /\ UNCHANGED <<capVars, symVars>>
    /\ UNCHANGED repRest

\* lines 115-118: free(strings) for a non-null `strings`, and the return
RepFree ==
    /\ rpc = "lines"
    /\ spc = "done"
    /\ ~MoreLines(fi, nptrs)
    /\ freed' = ~result.null
    /\ rpc' = "done"
    /\ UNCHANGED <<log_level, nptrs, fi, calls>>
    /\ UNCHANGED <<capVars, symVars>>
    /\ UNCHANGED repRest

ReportNext ==
    \/ Enter \/ FwdScan \/ AdjustSp \/ LoopHead \/ BwdScan \/ LoadRa
    \/ RepHeader \/ RepSymbols
    \/ SizeStep \/ Malloc \/ WriteStep \/ Return
    \/ RepLine \/ RepFree

\* what dladdr may answer for the addresses of a call chain
RepInfoChoices ==
    { d \in InfoChoices :
        \/ d.status = 0
        \/ ~d.fname.null /\ d.fname.s # <<>> /\ d.saddr = 0 }

Range(f) == {f[x] : x \in DOMAIN f}

\* print_stack_trace entered at the end of the well-formed call chain
\* `frames`, whose innermost frame F_1 is its own
ReportStart(pic, btFrame, frames, d1, d2) ==
    LET words == ChainWords(pic, btFrame, frames) IN
    /\ mem = [a \in AddrsOf(Len(words)) |-> words[a \div WordBytes]]
    /\ chain = [k \in 1..Len(frames) |-> RetAddr(pic, btFrame, frames, k)]
    /\ ra = RetAddr(pic, btFrame, frames, 1)
    /\ sp = WordBytes * (Len(ChainCodeWords(pic, btFrame, frames)) + 1)
    /\ size = BufferFrames
    /\ bufNull = FALSE
    /\ buffer = [k \in 0..(BufferFrames - 1) |-> Poison]
    /\ CaptureLocalsInit
    /\ symtab = [a \in Range(words) \cup {ra} |-> IF a = ra THEN d1 ELSE d2]
    /\ array = <<>>
    /\ status = <<>>
    /\ info = <<>>
    /\ cnt = 0
    /\ total = 0
    /\ result = NullResult
    /\ text = <<>>
    /\ last = 0
    /\ overrun = FALSE
    /\ spc = "idle"
    /\ nptrs = NoRet
    /\ fi = 0
    /\ calls = <<>>
    /\ freed = FALSE
    /\ rpc = "capture"

ReportInit ==
    \E pic \in BOOLEAN, btFrame \in BtFrames, n \in 1..MaxDepth :
      \E frames \in [1..n -> FrameShapes],
         d1 \in RepInfoChoices, d2 \in RepInfoChoices :
        /\ ReportStart(pic, btFrame, frames, d1, d2)
        /\ log_level \in {LOG_LEVEL_DEBUG, LOG_LEVEL_ERROR}
        /\ ThrIdle
        /\ FarIdle

SpecReport == ReportInit /\ [][ReportNext]_vars

-----------------------------------------------------------------------------
\* Properties of print_stack_trace.

\* the answer of dladdr for frame k of the reporter's buffer
FrameInfo(k) == symtab[buffer[k]]

\* the message of frame k: the formatter's line when it gave one, the bare
\* address otherwise
FrameText(k) ==
    IF result.null
      THEN FallbackText(k, buffer[k])
      ELSE SymbolText(k, LineText(buffer[k], FrameInfo(k).status,
                                  FrameInfo(k)))

\* the n + 1 calls of a complete report, in order
ExpectedCalls ==
    <<LogCall(HeaderText(nptrs))>>
    \o [k \in 1..nptrs |-> LogCall(FrameText(k - 1))]

\* C11: print_stack_trace makes exactly n + 1 logger calls, n the count the
\* unwinder returned (at most 64): at every moment the calls made so far are
\* the first ones of header, frame 0, frame 1, ..., frame n-1, each with the
\* caller's severity; all n + 1 were made when the function returns, and
\* the formatter's block is freed only after the last of them.
C11_HeaderThenFramesInOrder ==
    rpc \in {"symbols", "lines", "done"} =>
        /\ nptrs = ret
        /\ nptrs <= BufferFrames
        /\ Len(calls) <= nptrs + 1
        /\ calls = SubSeq(ExpectedCalls, 1, Len(calls))
        /\ (rpc = "done" => Len(calls) = nptrs + 1)
        /\ (freed => Len(calls) = nptrs + 1)

\* a report of two frames whose lines came from the formatter, which was
\* then freed
C11_Witness ==
    /\ rpc = "done"
    /\ nptrs = 2
    /\ freed
    /\ Len(calls) = 3
    /\ calls[2].text # calls[3].text

\* the line the formatter writes for an address dladdr knows nothing about
LastResort(a) ==
    LineText(a, 0, [status |-> 0, fname |-> NullStr, sname |-> NullStr,
                    saddr |-> 0])

\* C12: when backtrace_symbols returned NULL, print_stack_trace does not
\* dereference it: it returns after the header and one line per captured
\* frame, and the line of frame k is a tab, #, the two-digit k, a space and
\* the address as the formatter's last-resort line writes it between its
\* brackets; nothing is freed.
C12_FallbackOnNullStrings ==
    (rpc \in {"lines", "done", "fault"} /\ spc = "done" /\ result.null) =>
        /\ rpc # "fault"
        /\ ~freed
        /\ (rpc = "done" =>
              /\ Len(calls) = nptrs + 1
              /\ calls[1] = LogCall(HeaderText(nptrs))
              /\ \A k \in 0..(nptrs - 1) :
                   LET a == FmtP(buffer[k]) IN
                     /\ <<"[">> \o a \o <<"]">> = LastResort(buffer[k])
                     /\ calls[k + 2].level = log_level
                     /\ calls[k + 2].text
                          = <<"\t", "#">> \o Fmt02d(k) \o <<" ">> \o a)

\* a report of two frames made after backtrace_symbols returned NULL
C12_Witness ==
    /\ rpc = "done"
    /\ result.null
    /\ nptrs = 2
    /\ Len(calls) = 3
    /\ calls[3].text = FallbackText(1, buffer[1])

-----------------------------------------------------------------------------
\* Two threads in backtrace_mips32 and backtrace_symbols.
\*
\* Arguments, locals and the registers ra and sp belong to the thread that
\* runs: a switch of threads puts them aside in `other` and brings back those
\* of the thread that resumes.  Memory and the answers of dladdr are shared
\* and only read.  A first call runs alone; then the same thread calls again
\* from the same place, with whatever the first call left in its locals and
\* buffer, while a second thread makes the same call with locals of its own.

\* the running thread's registers, arguments and locals
Ctx ==
    [size |-> size, bufNull |-> bufNull, buffer |-> buffer, stores |-> stores,
     exit |-> exit, ra |-> ra, sp |-> sp, addr |-> addr,
     stack_size |-> stack_size, ra_offset |-> ra_offset, depth |-> depth,
     ret |-> ret, pc |-> pc, array |-> array, status |-> status,
     info |-> info, cnt |-> cnt, total |-> total, result |-> result,
     text |-> text, last |-> last, overrun |-> overrun, spc |-> spc,
     log_level |-> log_level, nptrs |-> nptrs, fi |-> fi, calls |-> calls,
     freed |-> freed, rpc |-> rpc]

\* a local declared static: one object for all threads
OwnLocal_Static(own, current) == current

\* lines 126-149, 183-189: automatic locals, found again as the thread left
\* them
OwnLocal(own, current) == own

\* what an uninitialized local may hold
GarbageLocals ==
    { [addr |-> 0, stack_size |-> 0, ra_offset |-> 0, depth |-> 0],
      [addr |-> WordBytes, stack_size |-> 2 * WordBytes,
       ra_offset |-> WordBytes, depth |-> 1] }

\* the scheduler takes the processor from one thread and gives it to the
\* other
Switch ==
    /\ phase = "both"
    /\ other' = Ctx
    /\ cur' = 3 - cur
    /\ mixed' = (mixed \/ (pc # "entry" /\ rpc # "done"))
    /\ size' = other.size
    /\ bufNull' = other.bufNull
    /\ buffer' = other.buffer
    /\ stores' = other.stores
    /\ exit' = other.exit
    /\ ra' = other.ra
    /\ sp' = other.sp
    /\ addr' = OwnLocal(other.addr, addr)
    /\ stack_size' = OwnLocal(other.stack_size, stack_size)
    /\ ra_offset' = OwnLocal(other.ra_offset, ra_offset)
    /\ depth' = OwnLocal(other.depth, depth)
    /\ ret' = other.ret
    /\ pc' = other.pc
    /\ array' = other.array
    /\ status' = other.status
    /\ info' = other.info
    /\ cnt' = OwnLocal(other.cnt, cnt)
    /\ total' = OwnLocal(other.total, total)
    /\ result' = other.result
    /\ text' = other.text
    /\ last' = OwnLocal(other.last, last)
    /\ overrun' = other.overrun
    /\ spc' = other.spc
    /\ log_level' = other.log_level
    /\ nptrs' = other.nptrs
    /\ fi' = other.fi
    /\ calls' = other.calls
    /\ freed' = other.freed
    /\ rpc' = other.rpc
    /\ UNCHANGED <<mem, chain, symtab, alone, phase>>
    /\ UNCHANGED farVars

\* the first call has returned: what it gave is kept, the same thread calls
\* again from the same place and a second thread starts the same call
Recall ==
    /\ phase = "alone"
    /\ rpc = "done"
    /\ alone' = [n |-> nptrs, buffer |-> buffer, null |-> result.null,
                 calls |-> calls]
    /\ phase' = "both"
    /\ ra' = other.ra
    /\ sp' = other.sp
    /\ stores' = <<>>
    /\ exit' = "none"
    /\ ret' = NoRet
    /\ pc' = "entry"
    /\ calls' = <<>>
    /\ freed' = FALSE
    /\ rpc' = "capture"
    /\ \E g \in GarbageLocals :
         other' = [Ctx EXCEPT !.ra = other.ra, !.sp = other.sp,
                      !.buffer = [k \in 0..(BufferFrames - 1) |-> Poison],
                      !.stores = <<>>, !.exit = "none", !.ret = NoRet,
                      !.pc = "entry", !.addr = g.addr,
                      !.stack_size = g.stack_size,
                      !.ra_offset = g.ra_offset, !.depth = g.depth,
                      !.nptrs = NoRet, !.calls = <<>>, !.freed = FALSE,
                      !.rpc = "capture", !.spc = "idle"]
    /\ UNCHANGED <<mem, chain, symtab, size, bufNull, buffer, addr,
                   stack_size, ra_offset, depth, array, status, info, cnt,
                   total, result, text, last, overrun, spc, log_level,
                   nptrs, fi, cur, mixed>>
    /\ UNCHANGED farVars

ThreadsNext ==
    \/ Enter \/ FwdScan \/ AdjustSp \/ LoopHead \/ BwdScan \/ LoadRa
    \/ RepHeader \/ RepSymbols
    \/ SizeStep \/ Malloc \/ WriteStep \/ Return
    \/ RepLine \/ RepFree
    \/ Recall \/ Switch

\* frames with the saved ra above the frame's lowest word
ThreadShapes == {f \in FrameShapes : f.ro # 0}

ThreadsInit ==
    \E pic \in BOOLEAN, n \in 1..MaxDepth :
      \E frames \in [1..n -> ThreadShapes], d \in RepInfoChoices :
        /\ ReportStart(pic, 2 * WordBytes, frames, d, d)
        /\ log_level = LOG_LEVEL_DEBUG
        /\ other = [ra |-> ra, sp |-> sp]
        /\ cur = 1
        /\ alone = <<>>
        /\ mixed = FALSE
        /\ phase = "alone"
        /\ FarIdle

SpecThreads == ThreadsInit /\ [][ThreadsNext]_vars

\* C13: a call that runs while another thread is in the same functions, and
\* a second call by the same thread from the same place, capture the same
\* count and the same addresses as the call that ran alone and, when the
\* allocation had the same outcome, log the same lines; neither crashes.
C13_CallsAreIndependent ==
    phase = "both" =>
        \A c \in {Ctx, other} :
            /\ c.pc # "fault"
            /\ c.spc # "abort"
            /\ c.rpc # "fault"
            /\ (c.pc = "done" =>
                  /\ c.ret = alone.n
                  /\ \A k \in 0..(alone.n - 1) :
                       c.buffer[k] = alone.buffer[k])
            /\ (c.rpc = "done" /\ c.result.null = alone.null =>
                  c.calls = alone.calls)

\* both threads have returned two formatted frames, and one of them was
\* switched out in the middle of its call
C13_Witness ==
    /\ phase = "both"
    /\ mixed
    /\ rpc = "done"
    /\ other.rpc = "done"
    /\ alone.n = 2
    /\ ~alone.null
    /\ ~result.null
    /\ ~other.result.null

-----------------------------------------------------------------------------
\* The logger (log.h and its implementation).
\*
\* Every public function locks cfg_mtx, works on Config and unlocks.  A
\* thread's call is a sequence of steps: the call, the lock, the statements
\* in between, the unlock.  log_to_file writes a message with three calls
\* of fprintf, each of which reads Config.file again.

\* most logger calls started in one run
LogCalls == 2

RECURSIVE BitAnd(_, _)
\* a & b for a, b >= 0
BitAnd(a, b) ==
    IF a = 0 \/ b = 0 THEN 0
    ELSE 2 * BitAnd(a \div 2, b \div 2) + (a % 2) * (b % 2)

\* the test of line 88 without its last operand
Disabled_NoLevelTest(cfg, level) ==
    cfg.sink = LOG_SINK_UNSPECIFIED \/ cfg.level_mask = LOG_DISABLED

\* lines 88-90
Disabled(cfg, level) ==
    \/ cfg.sink = LOG_SINK_UNSPECIFIED
    \/ cfg.level_mask = LOG_DISABLED
    \/ BitAnd(cfg.level_mask, level) = 0

\* line 95
NoFile(cfg) == cfg.sink = LOG_SINK_FILE /\ cfg.file = NullFile

\* a return without the unlock
DiscardExit_NoUnlock == "idle"

\* lines 91-92, 96-97: unlock, then return
DiscardExit == "unlock"

\* a lock that does not wait
CanLock_Always(m) == TRUE

\* line 181: pthread_mutex_lock returns once the mutex is free
CanLock(m) == m = 0

LogOps ==
    { [fn |-> "log_log", level |-> l] :
        l \in {LOG_LEVEL_DEBUG, LOG_LEVEL_ERROR} }
    \cup { [fn |-> "log_set_sink", sink |-> LOG_SINK_UNSPECIFIED,
            file |-> NullFile],
           [fn |-> "log_set_sink", sink |-> LOG_SINK_FILE, file |-> NullFile],
           [fn |-> "log_set_sink", sink |-> LOG_SINK_FILE, file |-> "stdout"],
           [fn |-> "log_set_sink", sink |-> LOG_SINK_SYSLOG,
            file |-> "stdout"] }
    \cup { [fn |-> "log_set_level", mask |-> m] :
             m \in {LOG_DISABLED, LOG_LEVEL_DEBUG} }
    \cup { [fn |-> "log_set_ident", ident |-> "id"] }
    \cup { [fn |-> "log_get_sink", want |-> w] : w \in BOOLEAN }
    \cup { [fn |-> "log_get_level"] }

Setters == {"log_set_sink", "log_set_level", "log_set_ident"}

\* a thread calls one of the public functions
Call(t) ==
    /\ lpc[t] = "idle"
    /\ ncalls < LogCalls
    /\ \E op \in LogOps :
         lop' = [lop EXCEPT ![t] = [call |-> op, id |-> ncalls + 1]]
    /\ ncalls' = ncalls + 1
    /\ lpc' = [lpc EXCEPT ![t] = "lock"]
    /\ UNCHANGED <<Config, cfg_mtx, lret, out, sys, opened, stable>>
    /\ UNCHANGED logRest

\* lines 179-182, the first statement of every public function
Lock(t) ==
    /\ lpc[t] = "lock"
    /\ CanLock(cfg_mtx)
    /\ cfg_mtx' = t
    /\ lpc' = [lpc EXCEPT ![t] = lop[t].call.fn]
    /\ UNCHANGED <<Config, lop, lret, ncalls, out, sys, opened,
                   stable>>
    /\ UNCHANGED logRest

\* lines 39-45
GetSink(t) ==
    /\ lpc[t] = "log_get_sink"
    /\ lret' = [lret EXCEPT ![t] =
                  [fn |-> "log_get_sink",
                   sink |-> IF lop[t].call.want THEN Config.sink ELSE -1,
                   file |-> IF lop[t].call.want THEN Config.file
                            ELSE "unset"]]
    /\ lpc' = [lpc EXCEPT ![t] = "unlock"]
    /\ UNCHANGED <<Config, cfg_mtx, lop, ncalls, out, sys, opened,
                   stable>>
    /\ UNCHANGED logRest

\* line 52
GetLevel(t) ==
    /\ lpc[t] = "log_get_level"
    /\ lret' = [lret EXCEPT ![t] =
                  [fn |-> "log_get_level", mask |-> Config.level_mask]]
    /\ lpc' = [lpc EXCEPT ![t] = "unlock"]
    /\ UNCHANGED <<Config, cfg_mtx, lop, ncalls, out, sys, opened,
                   stable>>
    /\ UNCHANGED logRest

\* lines 61-67: openlog or closelog, then the store to Config.sink
SetSinkSink(t) ==
    /\ lpc[t] = "log_set_sink"
    /\ opened' =
         IF lop[t].call.sink = LOG_SINK_SYSLOG /\ Config.sink # LOG_SINK_SYSLOG
           THEN Config.ident
         ELSE IF lop[t].call.sink # LOG_SINK_SYSLOG
                 /\ Config.sink = LOG_SINK_SYSLOG
           THEN NullFile
         ELSE opened
    /\ Config' = [Config EXCEPT !.sink = lop[t].call.sink]
    /\ lpc' = [lpc EXCEPT ![t] = "set_file"]
    /\ UNCHANGED <<cfg_mtx, lop, lret, ncalls, out, sys, stable>>
    /\ UNCHANGED logRest

\* line 68: the store to Config.file
SetSinkFile(t) ==
    /\ lpc[t] = "set_file"
    /\ Config' = [Config EXCEPT !.file = lop[t].call.file]
    /\ lpc' = [lpc EXCEPT ![t] = "unlock"]
    /\ UNCHANGED <<cfg_mtx, lop, lret, ncalls, out, sys, opened,
                   stable>>
    /\ UNCHANGED logRest

\* line 75
SetLevel(t) ==
    /\ lpc[t] = "log_set_level"
    /\ Config' = [Config EXCEPT !.level_mask = lop[t].call.mask]
    /\ lpc' = [lpc EXCEPT ![t] = "unlock"]
    /\ UNCHANGED <<cfg_mtx, lop, lret, ncalls, out, sys, opened,
                   stable>>
    /\ UNCHANGED logRest

\* line 81
SetIdent(t) ==
    /\ lpc[t] = "log_set_ident"
    /\ Config' = [Config EXCEPT !.ident = lop[t].call.ident]
    /\ lpc' = [lpc EXCEPT ![t] = "unlock"]
    /\ UNCHANGED <<cfg_mtx, lop, lret, ncalls, out, sys, opened,
                   stable>>
    /\ UNCHANGED logRest

\* lines 88-113: the two tests of log_log and its switch
LogTest(t) ==
    /\ lpc[t] = "log_log"
    /\ lpc' = [lpc EXCEPT ![t] =
                 IF Disabled(Config, lop[t].call.level) \/ NoFile(Config)
                   THEN DiscardExit
                 ELSE IF Config.sink = LOG_SINK_FILE THEN "prefix"
                 ELSE IF Config.sink = LOG_SINK_SYSLOG THEN "syslog"
                 ELSE "unlock"]
    /\ UNCHANGED <<Config, cfg_mtx, lop, lret, ncalls, out, sys,
                   opened, stable>>
    /\ UNCHANGED logRest

\* what one fprintf of log_to_file leaves in the stream
Piece(t, part) ==
    [id |-> lop[t].id, part |-> part, level |-> lop[t].call.level,
     cfg |-> Config, last |-> stable]

\* lines 169-173: time, level label, ident, file and line
FilePrefix(t) ==
    /\ lpc[t] = "prefix"
    /\ out' = Append(out, Piece(t, "prefix"))
    /\ lpc' = [lpc EXCEPT ![t] = "message"]
    /\ UNCHANGED <<Config, cfg_mtx, lop, lret, ncalls, sys, opened, stable>>
    /\ UNCHANGED logRest

\* line 175
FileMessage(t) ==
    /\ lpc[t] = "message"
    /\ out' = Append(out, Piece(t, "message"))
    /\ lpc' = [lpc EXCEPT ![t] = "newline"]
    /\ UNCHANGED <<Config, cfg_mtx, lop, lret, ncalls, sys, opened,
                   stable>>
    /\ UNCHANGED logRest

\* line 176
FileNewline(t) ==
    /\ lpc[t] = "newline"
    /\ out' = Append(out, Piece(t, "newline"))
    /\ lpc' = [lpc EXCEPT ![t] = "unlock"]
    /\ UNCHANGED <<Config, cfg_mtx, lop, lret, ncalls, sys, opened,
                   stable>>
    /\ UNCHANGED logRest

\* lines 149-164
Syslog(t) ==
    /\ lpc[t] = "syslog"
    /\ sys' = Append(sys, [id |-> lop[t].id, level |-> lop[t].call.level,
                           ident |-> opened, cfg |-> Config,
                           last |-> stable])
    /\ lpc' = [lpc EXCEPT ![t] = "unlock"]
    /\ UNCHANGED <<Config, cfg_mtx, lop, lret, ncalls, out, opened, stable>>
    /\ UNCHANGED logRest

\* lines 184-187, the last statement of every path, and the return
Unlock(t) ==
    /\ lpc[t] = "unlock"
    /\ cfg_mtx' = 0
    /\ stable' = IF lop[t].call.fn \in Setters THEN Config ELSE stable
    /\ lpc' = [lpc EXCEPT ![t] = "idle"]
    /\ UNCHANGED <<Config, lop, lret, ncalls, out, sys, opened>>
    /\ UNCHANGED logRest

LogNext ==
    \E t \in LogThreads :
        \/ Call(t) \/ Lock(t) \/ GetSink(t) \/ GetLevel(t)
        \/ SetSinkSink(t) \/ SetSinkFile(t) \/ SetLevel(t) \/ SetIdent(t)
        \/ LogTest(t) \/ FilePrefix(t) \/ FileMessage(t) \/ FileNewline(t)
        \/ Syslog(t) \/ Unlock(t)

\* configurations that completed setter calls leave behind, each with the
\* ident of the syslog connection log_set_sink opened for it
LogConfigs ==
    { [cfg |-> [ident |-> "?", level_mask |-> LOG_DISABLED,
                file |-> NullFile, sink |-> LOG_SINK_UNSPECIFIED],
       opened |-> NullFile],
      [cfg |-> [ident |-> "id",
                level_mask |-> LOG_LEVEL_DEBUG + LOG_LEVEL_ERROR,
                file |-> "stdout", sink |-> LOG_SINK_FILE],
       opened |-> NullFile],
      [cfg |-> [ident |-> "?",
                level_mask |-> LOG_LEVEL_DEBUG + LOG_LEVEL_ERROR,
                file |-> NullFile, sink |-> LOG_SINK_FILE],
       opened |-> NullFile],
      [cfg |-> [ident |-> "id", level_mask |-> LOG_LEVEL_DEBUG,
                file |-> NullFile, sink |-> LOG_SINK_SYSLOG],
       opened |-> "id"] }

\* the logger after the program start or after some completed setter calls,
\* no thread inside it
LogInit ==
    /\ \E c \in LogConfigs :
         /\ Config = c.cfg
         /\ opened = c.opened
    /\ cfg_mtx = 0
    /\ lpc = [t \in LogThreads |-> "idle"]
    /\ lop = [t \in LogThreads |-> [fn |-> "none"]]
    /\ lret = [t \in LogThreads |-> [fn |-> "none"]]
    /\ ncalls = 0
    /\ out = <<>>
    /\ sys = <<>>
    /\ stable = Config
    /\ TmrIdle
    /\ LckIdle
    /\ MsrIdle
    /\ CapIdle
    /\ SymIdle
    /\ RepIdle
    /\ ThrIdle

SpecLog == LogInit /\ [][LogNext]_vars

\* the same steps, with every thread that can take a step taking one in the
\* end: a thread inside the logger is never left unscheduled for ever
FairSpecLog == LogInit /\ [][LogNext]_vars /\ WF_vars(LogNext)

-----------------------------------------------------------------------------
\* Properties of the logger.

\* the mask has the bit of a level that is one of LOG_LEVEL_*
HasBit(mask, level) == (mask \div level) % 2 = 1

\* the call with this id left something in the stream / in syslog
InStream(id) == \E k \in 1..Len(out) : out[k].id = id
InSyslog(id) == \E k \in 1..Len(sys) : sys[k].id = id

C14_WitnessUnconfigured ==
    \E t \in LogThreads :
        /\ lpc[t] = "unlock"
        /\ lop[t].call.fn = "log_log"
        /\ Config.sink = LOG_SINK_UNSPECIFIED
        /\ Config.level_mask = LOG_DISABLED
        /\ ~InStream(lop[t].id)
        /\ ~InSyslog(lop[t].id)

InSection(t) == lpc[t] \notin {"idle", "lock"}

\* the three pieces of a message follow each other in the stream
Contiguous ==
    \A k \in 1..Len(out) :
        /\ out[k].part = "prefix" => (k = 1 \/ out[k - 1].part = "newline")
        /\ out[k].part = "message" =>
              k > 1 /\ out[k - 1].part = "prefix" /\ out[k - 1].id = out[k].id
        /\ out[k].part = "newline" =>
              k > 1 /\ out[k - 1].part = "message"
                    /\ out[k - 1].id = out[k].id

\* every piece and every syslog message was written under the configuration
\* the last completed setter call left
OneConfiguration ==
    /\ \A k \in 1..Len(out) : out[k].cfg = out[k].last
    /\ \A k \in 1..Len(sys) : sys[k].cfg = sys[k].last
    /\ \A k \in 2..Len(out) :
          out[k].id = out[k - 1].id => out[k].cfg = out[k - 1].cfg

C15_Safety ==
    /\ Cardinality({t \in LogThreads : InSection(t)}) <= 1
    /\ \A t \in LogThreads : InSection(t) <=> cfg_mtx = t
    /\ Contiguous
    /\ OneConfiguration

\* C15: at most one thread is between lock and unlock, the mutex is held by
\* that thread and by no thread that has returned or is still waiting (so
\* every path, the discarding ones too, gave it back), the pieces of a
\* message are together in the stream and written under one configuration
\* left by completed setters, and every call that has started returns.
C15_MutexDiscipline ==
    /\ []C15_Safety
    /\ \A t \in LogThreads : (lpc[t] # "idle") ~> (lpc[t] = "idle")

\* one thread waits for the mutex in log_log or log_set_sink while the other
\* is between the pieces of its message
C15_Witness ==
    \E t, u \in LogThreads :
        /\ lpc[t] = "message"
        /\ lpc[u] = "lock"
        /\ lop[u].call.fn \in {"log_log", "log_set_sink"}

\* C16: the file log_get_sink reports is NULL whenever the sink it reports
\* is not LOG_SINK_FILE.
C16_FileNullUnlessFileSink ==
    \A t \in LogThreads :
        (lret[t].fn = "log_get_sink" /\ lret[t].file # "unset"
         /\ lret[t].sink # LOG_SINK_FILE)
            => lret[t].file = NullFile

-----------------------------------------------------------------------------
\* The timer (timer.h, timer.c), functions without the _locked suffix.
\*
\* A timespec is [tv_sec, tv_nsec]; the clock CLOCK_MONOTONIC is the variable
\* `now`, which only moves forward and is always normalised.  Seconds stay
\* far below 2^31 / 1000, the range in which the arithmetic of timer.c in
\* long and int64_t is exact on every build.

\* most clock advances in one run
MaxTicks == 2

\* timer.c lines 8-10
NANOSECONDS_IN_SECOND == 1000000000
NANOSECONDS_IN_MILLISECOND == 1000000
MILLISECONDS_IN_SECOND == 1000

\* timer.c lines 189-192
STATUS_VALID == 1
STATUS_INITIALIZED == 2

\* timer.h line 83
TIMER_INITIALIZER ==
    [status |-> 2, lock |-> "static", start |-> Timespec(0, 0),
     deadline |-> Timespec(0, 0)]

\* lines 194-217
valid_set(st) == st + STATUS_VALID - BitAnd(st, STATUS_VALID)
valid_unset(st) == st - BitAnd(st, STATUS_VALID)
valid(st) == BitAnd(st, STATUS_VALID) # 0
initialized_set(st) == st + STATUS_INITIALIZED - BitAnd(st, STATUS_INITIALIZED)
initialized(st) == BitAnd(st, STATUS_INITIALIZED) # 0

\* lines 219-230
timespec_cmp(a, b) ==
    IF a.tv_sec = b.tv_sec
      THEN (IF a.tv_nsec = b.tv_nsec THEN 0
            ELSE IF a.tv_nsec > b.tv_nsec THEN 1 ELSE -1)
    ELSE IF a.tv_sec > b.tv_sec THEN 1
    ELSE -1

\* lines 232-237
timespec_to_ms(t) ==
    t.tv_sec * MILLISECONDS_IN_SECOND
    + t.tv_nsec \div NANOSECONDS_IN_MILLISECOND

\* measure.c lines 17-28.  The timer passes the same object as `result` and
\* as `start` or `end`; each field of it is read before it is written, so
\* the result is that of distinct objects.
measure_diff(from, to) ==
    IF to.tv_nsec - from.tv_nsec < 0
      THEN Timespec(to.tv_sec - from.tv_sec - 1,
                    to.tv_nsec - from.tv_nsec + NANOSECONDS_IN_SECOND)
      ELSE Timespec(to.tv_sec - from.tv_sec, to.tv_nsec - from.tv_nsec)

\* timer_set without the carry into tv_sec
Carry_Never(nsec) == FALSE

\* line 58
Carry(nsec) == nsec >= NANOSECONDS_IN_SECOND

\* lines 53-61: the deadline of a timer set at `from` for msec >= 0
Deadline(from, msec) ==
    LET sec == from.tv_sec + msec \div MILLISECONDS_IN_SECOND
        nsec == from.tv_nsec
                + (msec % MILLISECONDS_IN_SECOND) * NANOSECONDS_IN_MILLISECOND
    IN  IF Carry(nsec) THEN Timespec(sec + 1, nsec - NANOSECONDS_IN_SECOND)
        ELSE Timespec(sec, nsec)

\* the comparison made strict
IsExpired_Strict(c) == c > 0

\* lines 73, 100: timespec_cmp(now, deadline) >= 0
IsExpired(c) == c >= 0

\* timer_init without its test
AlreadyInit_Never(st) == FALSE

\* line 25
AlreadyInit(st) == initialized(st)

\* the call being made, the clock reading and the timer it finds, and the
\* clock reading of the last timer_set that was given no negative time
Before(fn, msec) ==
    [fn |-> fn, msec |-> msec, at |-> now, status |-> timer_status,
     start |-> timer_start, deadline |-> timer_deadline,
     lock |-> timer_lock,
     everSet |-> (tlast.everSet \/ (fn = "timer_set" /\ msec >= 0)),
     set |-> IF fn = "timer_set" /\ msec >= 0 THEN now ELSE tlast.set]

\* lines 24-33
TimerInit ==
    /\ tlast' = Before("timer_init", 0)
    /\ IF AlreadyInit(timer_status)
         THEN /\ tlog' = "LOGW"
              /\ UNCHANGED <<timer_status, timer_lock>>
         ELSE /\ timer_status' = initialized_set(0)
              /\ timer_lock' = "init"
              /\ tlog' = "none"
    /\ tret' = NoAnswer
    /\ UNCHANGED <<timer_start, timer_deadline, now, ticks>>
    /\ UNCHANGED tmrRest

\* lines 35-43
TimerDestroy ==
    /\ tlast' = Before("timer_destroy", 0)
    /\ IF ~initialized(timer_status)
         THEN /\ tlog' = "LOGW"
              /\ UNCHANGED <<timer_status, timer_lock>>
         ELSE /\ timer_status' = 0
              /\ timer_lock' = "destroyed"
              /\ tlog' = "none"
    /\ tret' = NoAnswer
    /\ UNCHANGED <<timer_start, timer_deadline, now, ticks>>
    /\ UNCHANGED tmrRest

\* what timer_set is asked for, in milliseconds
MsecChoices == {-1, 0, 1, 1999}

\* lines 45-64
TimerSet ==
    /\ tret' = NoAnswer
    /\ \E msec \in MsecChoices :
         /\ tlast' = Before("timer_set", msec)
         /\ IF msec < 0
              THEN /\ timer_status' = valid_unset(timer_status)
                   /\ tlog' = "LOGE"
                   /\ UNCHANGED <<timer_start, timer_deadline>>
              ELSE /\ timer_start' = now
                   /\ timer_deadline' = Deadline(now, msec)
                   /\ timer_status' = valid_set(timer_status)
                   /\ tlog' = "none"
    /\ UNCHANGED <<timer_lock, now, ticks>>
    /\ UNCHANGED tmrRest

\* lines 66-80
TimerRemaining ==
    /\ tret' = [tret EXCEPT !["timer_remaining"] =
                  IF ~valid(timer_status) THEN -1
                  ELSE IF IsExpired(timespec_cmp(now, timer_deadline)) THEN 0
                  ELSE timespec_to_ms(measure_diff(now, timer_deadline))]
    /\ UNCHANGED <<timer_status, timer_start, timer_deadline, timer_lock,
                   now, ticks, tlast, tlog>>
    /\ UNCHANGED tmrRest

\* lines 82-91
TimerElapsed ==
    /\ tret' = [tret EXCEPT !["timer_elapsed"] =
                  IF ~valid(timer_status) THEN -1
                  ELSE timespec_to_ms(measure_diff(timer_start, now))]
    /\ UNCHANGED <<timer_status, timer_start, timer_deadline, timer_lock,
                   now, ticks, tlast, tlog>>
    /\ UNCHANGED tmrRest

\* lines 93-101
TimerExpired ==
    /\ tret' = [tret EXCEPT !["timer_expired"] =
                  IF ~valid(timer_status) THEN -1
                  ELSE IF IsExpired(timespec_cmp(now, timer_deadline)) THEN 1
                  ELSE 0]
    /\ UNCHANGED <<timer_status, timer_start, timer_deadline, timer_lock,
                   now, ticks, tlast, tlog>>
    /\ UNCHANGED tmrRest

\* lines 103-105
TimerValid ==
    /\ tret' = [tret EXCEPT !["timer_valid"] =
                  IF valid(timer_status) THEN 1 ELSE 0]
    /\ UNCHANGED <<timer_status, timer_start, timer_deadline, timer_lock,
                   now, ticks, tlast, tlog>>
    /\ UNCHANGED tmrRest

\* lines 107-109
TimerInvalidate ==
    /\ tlast' = Before("timer_invalidate", 0)
    /\ timer_status' = valid_unset(timer_status)
    /\ tlog' = "none"
    /\ tret' = NoAnswer
    /\ UNCHANGED <<timer_start, timer_deadline, timer_lock, now, ticks>>
    /\ UNCHANGED tmrRest

\* what the clock may advance by, in nanoseconds: 0.4 ms, 999 ms
TickChoices == {400000, 999000000}

\* the clock after d more nanoseconds, d below one second
Later(t, d) ==
    IF t.tv_nsec + d >= NANOSECONDS_IN_SECOND
      THEN Timespec(t.tv_sec + 1, t.tv_nsec + d - NANOSECONDS_IN_SECOND)
      ELSE Timespec(t.tv_sec, t.tv_nsec + d)

\* time passes
Tick ==
    /\ ticks < MaxTicks
    /\ \E d \in TickChoices : now' = Later(now, d)
    /\ ticks' = ticks + 1
    /\ tret' = NoAnswer
    /\ UNCHANGED <<timer_status, timer_start, timer_deadline, timer_lock,
                   tlast, tlog>>
    /\ UNCHANGED tmrRest

TimerNext ==
    \/ TimerInit \/ TimerDestroy \/ TimerSet \/ TimerRemaining
    \/ TimerElapsed \/ TimerExpired \/ TimerValid \/ TimerInvalidate
    \/ Tick

\* a timer in zeroed or uninitialized storage, or one defined with
\* TIMER_INITIALIZER; the clock one millisecond into a second
TimerStart ==
    /\ \/ /\ timer_status \in {0, STATUS_VALID}
          /\ timer_lock = "none"
       \/ /\ timer_status = TIMER_INITIALIZER.status
          /\ timer_lock = TIMER_INITIALIZER.lock
    /\ timer_start = TIMER_INITIALIZER.start
    /\ timer_deadline = TIMER_INITIALIZER.deadline
    /\ now = Timespec(7, NANOSECONDS_IN_MILLISECOND)
    /\ ticks = 0
    /\ tret = NoAnswer
    /\ tlast = NoCall
    /\ tlog = "none"
    /\ LogIdle
    /\ LckIdle
    /\ MsrIdle
    /\ CapIdle
    /\ SymIdle
    /\ RepIdle
    /\ ThrIdle

SpecTimer == TimerStart /\ [][TimerNext]_vars

-----------------------------------------------------------------------------
\* Properties of the timer.

\* the state of the timer, read off the bits of `status`
IsValid == timer_status % 2 = 1
IsInitialized == (timer_status \div 2) % 2 = 1

\* a timespec as whole milliseconds and the nanoseconds beyond them
MsOf(t) == t.tv_sec * 1000 + t.tv_nsec \div 1000000
SubOf(t) == t.tv_nsec % 1000000

\* whole milliseconds from a to b, b not before a
MsBetween(a, b) == MsOf(b) - MsOf(a) - (IF SubOf(b) < SubOf(a) THEN 1 ELSE 0)

AtOrPast(a, b) ==
    a.tv_sec > b.tv_sec \/ (a.tv_sec = b.tv_sec /\ a.tv_nsec >= b.tv_nsec)

\* C17: after timer_set(msec) with msec >= 0 the timer is valid, start is
\* the clock reading of the call, deadline is start plus msec milliseconds
\* and 0 <= deadline.tv_nsec < 1,000,000,000; after timer_set with msec < 0
\* the timer is invalid and start and deadline are what they were.  The
\* initialized bit is as before in both cases.
C17_TimerSetDeadline ==
    tlast.fn = "timer_set" =>
        /\ IsInitialized <=> (tlast.status \div 2) % 2 = 1
        /\ IF tlast.msec >= 0
             THEN /\ IsValid
                  /\ timer_start = tlast.at
                  /\ timer_deadline.tv_nsec >= 0
                  /\ timer_deadline.tv_nsec < 1000000000
                  /\ MsOf(timer_deadline) = MsOf(timer_start) + tlast.msec
                  /\ SubOf(timer_deadline) = SubOf(timer_start)
             ELSE /\ ~IsValid
                  /\ timer_start = tlast.start
                  /\ timer_deadline = tlast.deadline

\* a timer set for 1999 ms at a reading whose nanoseconds, with the 999 ms,
\* make exactly one second
C17_Witness ==
    /\ tlast.fn = "timer_set"
    /\ tlast.msec = 1999
    /\ tlast.at.tv_nsec = 1000000
    /\ timer_deadline = Timespec(tlast.at.tv_sec + 2, 0)

\* a negative time given to a valid timer
C17_WitnessNegative ==
    /\ tlast.fn = "timer_set"
    /\ tlast.msec < 0
    /\ tlast.status % 2 = 1
    /\ tlast.everSet

\* C18: timer_remaining, timer_elapsed and timer_expired return -1 exactly
\* when the timer is invalid; on a valid timer timer_expired returns 1 when
\* the clock is at or past the deadline and 0 otherwise, and timer_elapsed
\* returns the whole milliseconds from the last timer_set to the clock
\* reading; timer_valid returns 1 on a valid timer and 0 on an invalid one.
C18_QueryAnswers ==
    /\ \A f \in {"timer_remaining", "timer_elapsed", "timer_expired"} :
          tret[f] # NotCalled => (tret[f] = -1 <=> ~IsValid)
    /\ (tret["timer_expired"] # NotCalled /\ IsValid) =>
          tret["timer_expired"]
              = (IF AtOrPast(now, timer_deadline) THEN 1 ELSE 0)
    /\ (tret["timer_elapsed"] # NotCalled /\ IsValid /\ tlast.everSet) =>
          tret["timer_elapsed"] = MsBetween(tlast.set, now)
    /\ tret["timer_valid"] # NotCalled =>
          tret["timer_valid"] = (IF IsValid THEN 1 ELSE 0)

\* a timer set for 1999 ms, asked 999.4 ms later
C18_Witness ==
    /\ IsValid
    /\ tlast.everSet
    /\ tret["timer_elapsed"] = 999
    /\ tret["timer_expired"] = 0
    /\ tret["timer_valid"] = 1
    /\ SubOf(now) # SubOf(tlast.set)

\* a timer asked at the very reading of its deadline
C18_WitnessAtDeadline ==
    /\ IsValid
    /\ now = timer_deadline
    /\ tret["timer_expired"] = 1

\* C19: at one clock reading of a valid timer, timer_remaining returns 0
\* exactly when timer_expired returns 1, and a positive value exactly when
\* timer_expired returns 0.
C19_RemainingZeroIffExpired ==
    (IsValid /\ tret["timer_remaining"] # NotCalled
     /\ tret["timer_expired"] # NotCalled) =>
        /\ tret["timer_remaining"] = 0 <=> tret["timer_expired"] = 1
        /\ tret["timer_remaining"] > 0 <=> tret["timer_expired"] = 0

\* C20: TIMER_INITIALIZER gives an initialized, invalid timer; timer_init on
\* a timer that is not initialized gives an initialized, invalid timer and
\* on an initialized one changes nothing; timer_destroy on an initialized
\* timer leaves it not initialized and invalid and on a timer that is not
\* initialized changes nothing.
C20_Lifecycle ==
    /\ (TIMER_INITIALIZER.status \div 2) % 2 = 1
    /\ TIMER_INITIALIZER.status % 2 = 0
    /\ (tlast.fn = "none" /\ timer_lock = "static") =>
          IsInitialized /\ ~IsValid
    /\ tlast.fn = "timer_init" =>
          IF (tlast.status \div 2) % 2 = 0
            THEN IsInitialized /\ ~IsValid
            ELSE /\ timer_status = tlast.status
                 /\ timer_start = tlast.start
                 /\ timer_deadline = tlast.deadline
                 /\ timer_lock = tlast.lock
    /\ tlast.fn = "timer_destroy" =>
          IF (tlast.status \div 2) % 2 = 1
            THEN ~IsInitialized /\ ~IsValid
            ELSE /\ timer_status = tlast.status
                 /\ timer_start = tlast.start
                 /\ timer_deadline = tlast.deadline
                 /\ timer_lock = tlast.lock

\* timer_init called on an initialized timer that is valid
C20_Witness ==
    /\ tlast.fn = "timer_init"
    /\ tlast.status = 3
    /\ IsValid
    /\ IsInitialized

\* timer_destroy called on an initialized timer that was valid
C20_WitnessDestroy ==
    /\ tlast.fn = "timer_destroy"
    /\ tlast.status = 3
    /\ timer_status = 0

-----------------------------------------------------------------------------
\* The _locked methods of the timer (timer.c lines 113-185), called by the
\* threads of LogThreads on one timer.  A thread runs a statement at a time:
\* the test of the initialized bit, pthread_mutex_lock, the unlocked method
\* (timer_set in two steps: the store of `start`, then the stores of
\* `deadline` and of the valid bit), pthread_mutex_unlock.  The test of the
\* initialized bit reads `status` outside the mutex while another thread may
\* be storing the valid bit of the same word: the read gives the word before
\* or after that store, and the initialized bit is the same in both.

\* bound on the number of _locked calls of a run
LockedCalls == 2

\* what timer_set_locked is asked for, in milliseconds
LockedMsec == {-1, 1999}

LockedOps ==
    [fn : {"timer_set"}, msec : LockedMsec]
    \cup [fn : Queries \cup {"timer_invalidate"}, msec : {0}]

\* the timer as it is now
TimerNow == TimerOf(timer_status, timer_start, timer_deadline)

\* timer.c lines 66-105: what an unlocked query returns on timer tm when
\* the clock reads `clock`
QueryResult(fn, tm, clock) ==
    IF fn = "timer_valid" THEN (IF valid(tm.status) THEN 1 ELSE 0)
    ELSE IF ~valid(tm.status) THEN -1
    ELSE IF fn = "timer_remaining"
      THEN (IF IsExpired(timespec_cmp(clock, tm.deadline)) THEN 0
            ELSE timespec_to_ms(measure_diff(clock, tm.deadline)))
    ELSE IF fn = "timer_elapsed"
      THEN timespec_to_ms(measure_diff(tm.start, clock))
    ELSE (IF IsExpired(timespec_cmp(clock, tm.deadline)) THEN 1 ELSE 0)

\* timer.c lines 45-64 and 107-109: the timer an unlocked timer_set or
\* timer_invalidate leaves
ChangeResult(fn, msec, tm, clock) ==
    IF fn = "timer_invalidate" \/ (fn = "timer_set" /\ msec < 0)
      THEN [tm EXCEPT !.status = valid_unset(tm.status)]
    ELSE IF fn = "timer_set"
      THEN TimerOf(valid_set(tm.status), clock, Deadline(clock, msec))
    ELSE tm

\* the _locked methods without their test
NotInit_Never(st) == FALSE

\* lines 114, 125, 138, 151, 164, 177
NotInit(st) == ~initialized(st)

\* a mutex that never makes a thread wait
CanTake_Always(o) == TRUE

\* pthread_mutex_lock returns when no thread holds the mutex
CanTake(o) == o = 0

\* entry of a _locked method: the test of the initialized bit
LockedCall(t) ==
    /\ kpc[t] = "idle"
    /\ kcalls < LockedCalls
    /\ kcalls' = kcalls + 1
    /\ \E op \in LockedOps :
         /\ kcall' = [kcall EXCEPT ![t] =
               [fn |-> op.fn, msec |-> op.msec, before |-> TimerNow,
                at |-> now,
                res |-> IF NotInit(timer_status) /\ op.fn \in Queries
                          THEN -1 ELSE NotCalled,
                fin |-> NotInit(timer_status), rep |-> kdone,
                seen |-> TimerNow, after |-> TimerNow,
                log |-> IF NotInit(timer_status) THEN "LOGE" ELSE "none"]]
         /\ kpc' = [kpc EXCEPT ![t] =
               IF NotInit(timer_status) THEN "idle" ELSE "lock"]
    /\ UNCHANGED <<timer_owner, kdone, ksets>>
    /\ UNCHANGED tmrVars
    /\ UNCHANGED lckRest

\* pthread_mutex_lock(&timer->lock)
LockedLock(t) ==
    /\ kpc[t] = "lock"
    /\ CanTake(timer_owner)
    /\ timer_owner' = t
    /\ kcall' = [kcall EXCEPT ![t].before = TimerNow]
    /\ kpc' = [kpc EXCEPT ![t] =
          IF kcall[t].fn = "timer_set" THEN "set"
          ELSE IF kcall[t].fn = "timer_invalidate" THEN "invalidate"
          ELSE "query"]
    /\ UNCHANGED <<kcalls, kdone, ksets>>
    /\ UNCHANGED tmrVars
    /\ UNCHANGED lckRest

\* lines 131, 144, 157, 170: the unlocked query
LockedQuery(t) ==
    /\ kpc[t] = "query"
    /\ kcall' = [kcall EXCEPT
          ![t].res = QueryResult(kcall[t].fn, TimerNow, now),
          ![t].at = now,
          ![t].rep = kdone,
          ![t].seen = TimerNow]
    /\ kpc' = [kpc EXCEPT ![t] = "unlock"]
    /\ UNCHANGED <<timer_owner, kcalls, kdone, ksets>>
    /\ UNCHANGED tmrVars
    /\ UNCHANGED lckRest

\* line 183: timer_invalidate
LockedInvalidate(t) ==
    /\ kpc[t] = "invalidate"
    /\ timer_status' = valid_unset(timer_status)
    /\ kdone' = ChangeResult("timer_invalidate", 0, kdone, now)
    /\ kcall' = [kcall EXCEPT ![t].at = now]
    /\ kpc' = [kpc EXCEPT ![t] = "unlock"]
    /\ UNCHANGED <<timer_owner, kcalls, ksets>>
    /\ UNCHANGED <<timer_start, timer_deadline, timer_lock, now, ticks, tret,
                   tlast, tlog>>
    /\ UNCHANGED lckRest

\* line 120, timer_set lines 46-52: the test of msec, the store of `start`
LockedSetStart(t) ==
    /\ kpc[t] = "set"
    /\ kcall' = [kcall EXCEPT ![t].at = now,
                              ![t].log = IF kcall[t].msec < 0 THEN "LOGE"
                                         ELSE "none"]
    /\ IF kcall[t].msec < 0
         THEN /\ timer_status' = valid_unset(timer_status)
              /\ kdone' = ChangeResult("timer_set", kcall[t].msec, kdone, now)
              /\ kpc' = [kpc EXCEPT ![t] = "unlock"]
              /\ UNCHANGED <<timer_start, ksets>>
         ELSE /\ timer_start' = now
              /\ ksets' = ksets \cup {[at |-> now, msec |-> kcall[t].msec]}
              /\ kpc' = [kpc EXCEPT ![t] = "deadline"]
              /\ UNCHANGED <<timer_status, kdone>>
    /\ UNCHANGED <<timer_owner, kcalls>>
    /\ UNCHANGED <<timer_deadline, timer_lock, now, ticks, tret, tlast, tlog>>
    /\ UNCHANGED lckRest

\* timer_set lines 53-63: `deadline` from `start`, then the valid bit
LockedSetDeadline(t) ==
    /\ kpc[t] = "deadline"
    /\ timer_deadline' = Deadline(timer_start, kcall[t].msec)
    /\ timer_status' = valid_set(timer_status)
    /\ kdone' = ChangeResult("timer_set", kcall[t].msec, kdone, kcall[t].at)
    /\ kpc' = [kpc EXCEPT ![t] = "unlock"]
    /\ UNCHANGED <<timer_owner, kcall, kcalls, ksets>>
    /\ UNCHANGED <<timer_start, timer_lock, now, ticks, tret, tlast, tlog>>
    /\ UNCHANGED lckRest

\* pthread_mutex_unlock(&timer->lock) and the return
LockedUnlock(t) ==
    /\ kpc[t] = "unlock"
    /\ timer_owner' = 0
    /\ kcall' = [kcall EXCEPT ![t].fin = TRUE, ![t].after = TimerNow]
    /\ kpc' = [kpc EXCEPT ![t] = "idle"]
    /\ UNCHANGED <<kcalls, kdone, ksets>>
    /\ UNCHANGED tmrVars
    /\ UNCHANGED lckRest

\* what the clock advances by between two steps of the threads, in
\* nanoseconds: 600.4 ms
LockedStep == 600400000

\* bound on the number of clock advances of a run of the threads
LockedTicks == 1

\* time passes
LockedTick ==
    /\ ticks < LockedTicks
    /\ now' = Later(now, LockedStep)
    /\ ticks' = ticks + 1
    /\ UNCHANGED <<timer_status, timer_start, timer_deadline, timer_lock,
                   tret, tlast, tlog>>
    /\ UNCHANGED lckVars
    /\ UNCHANGED lckRest

LockedNext ==
    \/ \E t \in LogThreads :
          \/ LockedCall(t) \/ LockedLock(t) \/ LockedQuery(t)
          \/ LockedInvalidate(t) \/ LockedSetStart(t)
          \/ LockedSetDeadline(t) \/ LockedUnlock(t)
    \/ LockedTick

\* when the timer of LockedStart was set, if it was, and what for
EarlierSet == [at |-> Timespec(6, 500 * NANOSECONDS_IN_MILLISECOND),
               msec |-> 700]

\* a timer in zeroed or uninitialized storage, one defined with
\* TIMER_INITIALIZER, or one defined so and set since with timer_set_locked;
\* no thread in a call
LockedStart ==
    /\ \/ /\ timer_status \in {0, STATUS_VALID}
          /\ timer_lock = "none"
          /\ timer_start = TIMER_INITIALIZER.start
          /\ timer_deadline = TIMER_INITIALIZER.deadline
          /\ ksets = {}
       \/ /\ timer_status = TIMER_INITIALIZER.status
          /\ timer_lock = TIMER_INITIALIZER.lock
          /\ timer_start = TIMER_INITIALIZER.start
          /\ timer_deadline = TIMER_INITIALIZER.deadline
          /\ ksets = {}
       \/ /\ timer_status = valid_set(TIMER_INITIALIZER.status)
          /\ timer_lock = TIMER_INITIALIZER.lock
          /\ timer_start = EarlierSet.at
          /\ timer_deadline = Deadline(EarlierSet.at, EarlierSet.msec)
          /\ ksets = {EarlierSet}
    /\ now = Timespec(7, NANOSECONDS_IN_MILLISECOND)
    /\ ticks = 0
    /\ tret = NoAnswer
    /\ tlast = NoCall
    /\ tlog = "none"
    /\ timer_owner = 0
    /\ kpc = [t \in LogThreads |-> "idle"]
    /\ kcall = [t \in LogThreads |-> NoLockedCall]
    /\ kcalls = 0
    /\ kdone = TimerNow
    /\ LogIdle
    /\ MsrIdle
    /\ CapIdle
    /\ SymIdle
    /\ RepIdle
    /\ ThrIdle

SpecLocked == LockedStart /\ [][LockedNext]_vars

\* every thread that can run is run in the end
FairSpecLocked == LockedStart /\ [][LockedNext]_vars /\ WF_vars(LockedNext)

-----------------------------------------------------------------------------
\* Properties of the _locked methods.

\* threads between pthread_mutex_lock and pthread_mutex_unlock
Holding(t) == kpc[t] \in {"query", "invalidate", "set", "deadline", "unlock"}

\* the timer tm is valid
ValidIn(tm) == tm.status % 2 = 1

\* C21: a _locked method called on a timer that is not initialized changes
\* no field of the timer, does not touch the mutex, logs an error and, if
\* it returns a value, returns -1; on an initialized timer a completed call
\* returned what its unlocked counterpart returns on the timer the call
\* found, at the clock reading of the call, and left the timer that
\* counterpart leaves.
C21_LockedLikeUnlocked ==
    \A t \in LogThreads :
        /\ ~IsInitialized =>
              /\ timer_owner = 0
              /\ kpc[t] = "idle"
              /\ timer_lock = "none"
              /\ kcall[t].fn # "none" =>
                    /\ kcall[t].fin
                    /\ TimerNow = kcall[t].before
                    /\ kcall[t].log = "LOGE"
                    /\ kcall[t].fn \in Queries => kcall[t].res = -1
                    /\ kcall[t].fn \notin Queries => kcall[t].res = NotCalled
        /\ (IsInitialized /\ kcall[t].fn # "none" /\ kcall[t].fin) =>
              /\ kcall[t].fn \in Queries =>
                    kcall[t].res
                        = QueryResult(kcall[t].fn, kcall[t].before, kcall[t].at)
              /\ kcall[t].after
                    = ChangeResult(kcall[t].fn, kcall[t].msec,
                                   kcall[t].before, kcall[t].at)

\* timer_valid_locked on a timer that is not initialized and has the valid
\* bit: -1 where timer_valid returns 1
C21_Witness ==
    /\ ~IsInitialized
    /\ IsValid
    /\ kcall[1].fn = "timer_valid"
    /\ kcall[1].res = -1
    /\ kcall[2].fn = "timer_set"
    /\ kcall[2].msec >= 0
    /\ kcall[2].fin

\* completed calls on an initialized timer: a timer_set_locked, and a
\* timer_remaining_locked that found the timer it left
C21_WitnessInitialized ==
    /\ IsInitialized
    /\ kcall[1].fn = "timer_set"
    /\ kcall[1].msec = 1999
    /\ kcall[1].fin
    /\ ValidIn(kcall[1].after)
    /\ ~ValidIn(kcall[1].before)
    /\ kcall[2].fn = "timer_remaining"
    /\ kcall[2].fin
    /\ kcall[2].res > 0

\* what C22 says of every state
C22_Safety ==
    IsInitialized =>
        /\ \A t \in LogThreads : Holding(t) <=> timer_owner = t
        /\ timer_owner = 0 => TimerNow = kdone
        /\ \A t \in LogThreads :
              (kcall[t].fn \in Queries /\ kcall[t].res # NotCalled) =>
                  /\ ValidIn(kcall[t].seen) =>
                        \E s \in ksets :
                            /\ kcall[t].seen.start = s.at
                            /\ MsOf(kcall[t].seen.deadline)
                                   = MsOf(s.at) + s.msec
                            /\ SubOf(kcall[t].seen.deadline) = SubOf(s.at)
                  /\ kcall[t].res
                        = QueryResult(kcall[t].fn, kcall[t].rep, kcall[t].at)

\* C22: with the threads calling the _locked methods on one initialized
\* timer in any interleaving, only the holder of the mutex is between lock
\* and unlock and the mutex is free when no thread is; no query finds a
\* valid timer whose start and deadline are not those of one timer_set;
\* every result is that of the unlocked method on the timer the completed
\* calls left; and every call returns.
C22_LockedCallsAreAtomic ==
    /\ []C22_Safety
    /\ \A t \in LogThreads : (kpc[t] # "idle") ~> (kpc[t] = "idle")

\* a query waiting for the mutex while a timer_set has stored `start` and
\* not yet `deadline`, on a timer that was valid before
C22_Witness ==
    /\ IsInitialized
    /\ IsValid
    /\ kpc[1] = "deadline"
    /\ timer_start # kdone.start
    /\ kpc[2] = "lock"
    /\ kcall[2].fn = "timer_elapsed"

-----------------------------------------------------------------------------
\* measure.c: the stack of starting points.  The calls come from one
\* thread (measure.h lines 9-13: the functions are not thread-safe);
\* clock_gettime(CLOCK_MONOTONIC) into a valid object succeeds.

\* bound on the number of measure_* calls of a run
MeasureCalls == 4

\* a store to start[ARRAY_SIZE] let through
Full_OffByOne(p) == p > ARRAY_SIZE

\* measure.c line 31
Full(p) == p >= ARRAY_SIZE

\* the pop that reads the slot above the top
Pop_NoDecrement(p) == p

\* lines 47-49: --start_ptr, and 0 in place of a negative start_ptr
Pop(p) == IF p - 1 < 0 THEN 0 ELSE p - 1

\* lines 67-74
is_log_available(cfg) ==
    cfg.level_mask # LOG_DISABLED /\ cfg.sink # LOG_SINK_UNSPECIFIED

\* the starting point a call that takes one back is paired with, and the
\* stored starting points after it
Paired == IF pending.stack = <<>> THEN pending.top
          ELSE pending.stack[Len(pending.stack)]

TakenBack ==
    IF pending.stack = <<>> THEN pending
    ELSE [pending EXCEPT !.stack = SubSeq(@, 1, Len(@) - 1),
                         !.top = Paired,
                         !.lost = @ /\ Len(pending.stack) > 1]

\* lines 30-39
MeasureStart ==
    /\ mcalls < MeasureCalls
    /\ mcalls' = mcalls + 1
    /\ IF Full(start_ptr)
         THEN /\ mlast' = [NoMeasure EXCEPT !.fn = "measure_start",
                              !.ptr = start_ptr, !.slots = start, !.at = now,
                              !.to = "printf"]
              /\ UNCHANGED <<start, start_ptr>>
         ELSE /\ start' = [start EXCEPT ![start_ptr] = now]
              /\ start_ptr' = start_ptr + 1
              /\ mlast' = [NoMeasure EXCEPT !.fn = "measure_start",
                              !.ptr = start_ptr, !.slots = start, !.at = now,
                              !.wrote = start_ptr]
    /\ pending' = [pending EXCEPT !.stack = Append(@, now),
                                  !.any = TRUE,
                                  !.lost = @ \/ Len(pending.stack) >= 16]
    /\ UNCHANGED msrRest

\* lines 41-52: what measure_get reads and gives
Got(fn, to) ==
    [fn |-> fn, ptr |-> start_ptr, slots |-> start, at |-> now,
     read |-> Pop(start_ptr), wrote |-> -1,
     diff |-> IF Pop(start_ptr) \in DOMAIN start
                THEN measure_diff(start[Pop(start_ptr)], now)
                ELSE Timespec(-1, -1),
     to |-> to, want |-> Paired, paired |-> pending.any,
     lost |-> pending.lost]

\* lines 41-52
MeasureGet ==
    /\ mcalls < MeasureCalls
    /\ mcalls' = mcalls + 1
    /\ start_ptr' = Pop(start_ptr)
    /\ mlast' = Got("measure_get", "none")
    /\ pending' = TakenBack
    /\ UNCHANGED start
    /\ UNCHANGED msrRest

\* lines 54-63: measure_get, then the message to the log or to stdout
MeasurePrint ==
    /\ mcalls < MeasureCalls
    /\ mcalls' = mcalls + 1
    /\ start_ptr' = Pop(start_ptr)
    /\ mlast' = Got("measure_print",
                    IF is_log_available(Config) THEN "LOGD" ELSE "printf")
    /\ pending' = TakenBack
    /\ UNCHANGED start
    /\ UNCHANGED msrRest

\* time passes
MeasureTick ==
    /\ ticks < MaxTicks
    /\ \E d \in TickChoices : now' = Later(now, d)
    /\ ticks' = ticks + 1
    /\ UNCHANGED <<timer_status, timer_start, timer_deadline, timer_lock,
                   tret, tlast, tlog>>
    /\ UNCHANGED msrVars
    /\ UNCHANGED <<backVars, logVars, lckVars>>

MeasureNext == MeasureStart \/ MeasureGet \/ MeasurePrint \/ MeasureTick

\* the clock reading of the measure_start that filled slot k of a stack
\* built before the run starts
StoredAt(k) == Timespec(k + 1, (k + 1) * NANOSECONDS_IN_MILLISECOND)

\* how many starting points are stored as the run starts
DepthChoices == {0, 1, ARRAY_SIZE - 1}

\* the program start, or the state after n nested measure_start calls; the
\* logger as the program start or earlier setter calls left it
MeasureInit ==
    /\ \E n \in DepthChoices :
         /\ start = [k \in 0..(ARRAY_SIZE - 1) |->
                        IF k < n THEN StoredAt(k) ELSE Timespec(0, 0)]
         /\ start_ptr = n
         /\ pending = [stack |-> [k \in 1..n |-> StoredAt(k - 1)],
                       top |-> Timespec(0, 0), any |-> n > 0,
                       lost |-> FALSE]
    /\ mcalls = 0
    /\ mlast = NoMeasure
    /\ \E c \in LogConfigs :
         /\ Config = c.cfg
         /\ opened = c.opened
    /\ cfg_mtx = 0
    /\ lpc = [t \in LogThreads |-> "idle"]
    /\ lop = [t \in LogThreads |-> [fn |-> "none"]]
    /\ lret = [t \in LogThreads |-> [fn |-> "none"]]
    /\ ncalls = 0
    /\ out = <<>>
    /\ sys = <<>>
    /\ stable = Config
    /\ timer_status = 0
    /\ timer_start = Timespec(0, 0)
    /\ timer_deadline = Timespec(0, 0)
    /\ timer_lock = "none"
    /\ now = Timespec(20, NANOSECONDS_IN_MILLISECOND)
    /\ ticks = 0
    /\ tret = NoAnswer
    /\ tlast = NoCall
    /\ tlog = "none"
    /\ LckIdle
    /\ CapIdle
    /\ SymIdle
    /\ RepIdle
    /\ ThrIdle

SpecMeasure == MeasureInit /\ [][MeasureNext]_vars

-----------------------------------------------------------------------------
\* Properties of measure.c.

Slots == 0..15

\* a call that takes a starting point back
Took == mlast.fn \in {"measure_get", "measure_print"}

\* d is the time from clock reading a to clock reading b
Elapsed(a, d, b) ==
    /\ d.tv_nsec >= 0
    /\ d.tv_nsec < 1000000000
    /\ IF a.tv_nsec + d.tv_nsec < 1000000000
         THEN b = Timespec(a.tv_sec + d.tv_sec, a.tv_nsec + d.tv_nsec)
         ELSE b = Timespec(a.tv_sec + d.tv_sec + 1,
                           a.tv_nsec + d.tv_nsec - 1000000000)

\* C23: the number of stored starting points is between 0 and 16;
\* measure_start on a full stack stores nothing and changes nothing, on any
\* other stack it stores the clock reading in the next slot; a call that
\* takes a starting point back from an empty stack leaves it empty; every
\* slot read or written is one of the 16 of the array.
C23_StackWithinBounds ==
    /\ start_ptr >= 0
    /\ start_ptr <= 16
    /\ mlast.read \in Slots \cup {-1}
    /\ mlast.wrote \in Slots \cup {-1}
    /\ mlast.fn = "measure_start" =>
          IF mlast.ptr = 16
            THEN start = mlast.slots /\ start_ptr = 16 /\ mlast.wrote = -1
            ELSE /\ start_ptr = mlast.ptr + 1
                 /\ mlast.wrote = mlast.ptr
                 /\ start[mlast.ptr] = mlast.at
                 /\ \A k \in Slots \ {mlast.ptr} : start[k] = mlast.slots[k]
    /\ Took =>
          /\ mlast.read \in Slots
          /\ start = mlast.slots
          /\ start_ptr = (IF mlast.ptr = 0 THEN 0 ELSE mlast.ptr - 1)

\* measure_start called on a stack of 16
C23_Witness ==
    /\ mlast.fn = "measure_start"
    /\ mlast.ptr = 16
    /\ mlast.at # mlast.slots[15]

\* measure_get called on an empty stack
C23_WitnessEmpty ==
    /\ mlast.fn = "measure_get"
    /\ mlast.ptr = 0

C24_WitnessNested ==
    /\ Took
    /\ mlast.ptr = 1
    /\ start[1] # Timespec(0, 0)
    /\ start[1] # start[0]
    /\ mlast.want = start[0]
    /\ mcalls = 4

====
